---- MODULE Spec2Model ----
(***************************************************************************)
(* State models and command envelope of the SKA LMC base classes.          *)
(*                                                                         *)
(*   - DeviceStateMachine and ObservationStateMachine                      *)
(*     (src/src/ska/base/state_machine.py), two pytransitions Machines;    *)
(*   - DeviceStateModel (src/src/ska/base/control_model.py), the           *)
(*     table-driven state model, loaded with the transition table of       *)
(*     SKASubarrayStateModel (src/src/ska/base/subarray_device.py);        *)
(*   - ActionCommand and DualActionCommand                                 *)
(*     (src/src/ska/base/commands.py) and the SKASubarray commands built   *)
(*     on them, acting on that state model.                                *)
(***************************************************************************)
EXTENDS Integers, Sequences, FiniteSets, TLC

VARIABLES
    dsm_state,      \* DeviceStateMachine.state
    dsm_op_state,   \* DeviceStateMachine._op_state
    dsm_last,       \* the last trigger sent to the DeviceStateMachine
    osm_state,      \* ObservationStateMachine.state
    osm_obs_state,  \* ObservationStateMachine._obs_state
    osm_last,       \* the last trigger sent to the ObservationStateMachine
    sm_state,       \* DeviceStateModel._state of the subarray state model
    assigned,       \* SKASubarray._assigned_resources (a list)
    configured,     \* SKASubarray._configured_capabilities (a dict)
    cmd_last,       \* the last command invocation
    bm_state,       \* SKABaseDeviceStateModel._state
    bm_admin_mode,  \* SKABaseDeviceStateModel._admin_mode
    bm_last,        \* the last action called on the SKABaseDeviceStateModel
    ssm_state,      \* DeviceStateModel._state of a subarray state model
    ssm_op_state,   \* the op state that its side effects have set
    ssm_obs_state,  \* the obs state that its side effects reported last
    ssm_last,       \* the last action performed on it
    logging_config_lock,        \* SKABaseDevice._logging_config_lock: its holder
    logging_configured,         \* SKABaseDevice._logging_configured
    init_logging_pc,            \* where each device is in _init_logging
    configure_logging_calls,    \* calls of ska_logging.configure_logging made
    configure_logging_returns   \* calls of it that have returned

vars == <<dsm_state, dsm_op_state, dsm_last, osm_state, osm_obs_state,
          osm_last, sm_state, assigned, configured, cmd_last,
          bm_state, bm_admin_mode, bm_last,
          ssm_state, ssm_op_state, ssm_obs_state, ssm_last,
          logging_config_lock, logging_configured, init_logging_pc,
          configure_logging_calls, configure_logging_returns>>

dsm_vars == <<dsm_state, dsm_op_state, dsm_last>>
osm_vars == <<osm_state, osm_obs_state, osm_last>>
cmd_vars == <<sm_state, assigned, configured, cmd_last>>
bm_vars == <<bm_state, bm_admin_mode, bm_last>>
ssm_vars == <<ssm_state, ssm_op_state, ssm_obs_state, ssm_last>>
log_vars == <<logging_config_lock, logging_configured, init_logging_pc,
              configure_logging_calls, configure_logging_returns>>

None == "None"

SeqMin(S) == CHOOSE i \in S : \A j \in S : i <= j

(***************************************************************************)
(* pytransitions Machine: a trigger is looked up in the transition list;   *)
(* the first transition of that trigger whose source holds the current     *)
(* state is executed, and a trigger with no such transition raises         *)
(* MachineError before anything is changed.                                *)
(***************************************************************************)
TriggersOf(transitions) ==
    {transitions[i].trigger : i \in DOMAIN transitions}

Matching(transitions, state, trigger) ==
    {i \in DOMAIN transitions :
        /\ transitions[i].trigger = trigger
        /\ state \in transitions[i].source}

MayTrigger(transitions, state, trigger) ==
    Matching(transitions, state, trigger) # {}

DestOf(transitions, state, trigger) ==
    transitions[SeqMin(Matching(transitions, state, trigger))].dest

(***************************************************************************)
(* DeviceStateMachine                                                      *)
(***************************************************************************)
DSM_states ==
    {"UNINITIALISED", "INIT", "FAULT", "DISABLED", "STANDBY", "OFF", "ON"}

DSM_transitions_fatal_from_anywhere ==
    << [source |-> {"UNINITIALISED"}, trigger |-> "init_started", dest |-> "INIT"],
       [source |-> DSM_states, trigger |-> "fatal_error", dest |-> "FAULT"],
       [source |-> {"INIT"}, trigger |-> "init_succeeded_disabled", dest |-> "DISABLED"],
       [source |-> {"INIT"}, trigger |-> "init_succeeded_standby", dest |-> "STANDBY"],
       [source |-> {"INIT"}, trigger |-> "init_succeeded_off", dest |-> "OFF"],
       [source |-> {"INIT"}, trigger |-> "init_failed", dest |-> "FAULT"],
       [source |-> {"FAULT"}, trigger |-> "reset_succeeded_disabled", dest |-> "DISABLED"],
       [source |-> {"FAULT"}, trigger |-> "reset_succeeded_standby", dest |-> "STANDBY"],
       [source |-> {"FAULT"}, trigger |-> "reset_succeeded_off", dest |-> "OFF"],
       [source |-> {"FAULT"}, trigger |-> "reset_failed", dest |-> "FAULT"],
       [source |-> {"DISABLED", "OFF"}, trigger |-> "standby_succeeded", dest |-> "STANDBY"],
       [source |-> {"DISABLED", "OFF"}, trigger |-> "standby_failed", dest |-> "FAULT"],
       [source |-> {"STANDBY", "OFF"}, trigger |-> "disable_succeeded", dest |-> "DISABLED"],
       [source |-> {"STANDBY", "OFF"}, trigger |-> "disable_failed", dest |-> "FAULT"],
       [source |-> {"DISABLED", "STANDBY", "ON"}, trigger |-> "off_succeeded", dest |-> "OFF"],
       [source |-> {"DISABLED", "STANDBY", "ON"}, trigger |-> "off_failed", dest |-> "FAULT"],
       [source |-> {"OFF"}, trigger |-> "on_succeeded", dest |-> "ON"],
       [source |-> {"OFF"}, trigger |-> "on_failed", dest |-> "FAULT"] >>

DSM_transitions_on_from_standby ==
    << [source |-> {"UNINITIALISED"}, trigger |-> "init_started", dest |-> "INIT"],
       [source |-> {"INIT", "FAULT", "DISABLED", "STANDBY", "OFF", "ON"},
        trigger |-> "fatal_error", dest |-> "FAULT"],
       [source |-> {"INIT"}, trigger |-> "init_succeeded_disabled", dest |-> "DISABLED"],
       [source |-> {"INIT"}, trigger |-> "init_succeeded_standby", dest |-> "STANDBY"],
       [source |-> {"INIT"}, trigger |-> "init_succeeded_off", dest |-> "OFF"],
       [source |-> {"INIT"}, trigger |-> "init_failed", dest |-> "FAULT"],
       [source |-> {"FAULT"}, trigger |-> "reset_succeeded_disabled", dest |-> "DISABLED"],
       [source |-> {"FAULT"}, trigger |-> "reset_succeeded_standby", dest |-> "STANDBY"],
       [source |-> {"FAULT"}, trigger |-> "reset_succeeded_off", dest |-> "OFF"],
       [source |-> {"FAULT"}, trigger |-> "reset_failed", dest |-> "FAULT"],
       [source |-> {"DISABLED", "OFF"}, trigger |-> "standby_succeeded", dest |-> "STANDBY"],
       [source |-> {"DISABLED", "OFF"}, trigger |-> "standby_failed", dest |-> "FAULT"],
       [source |-> {"STANDBY", "OFF"}, trigger |-> "disable_succeeded", dest |-> "DISABLED"],
       [source |-> {"STANDBY", "OFF"}, trigger |-> "disable_failed", dest |-> "FAULT"],
       [source |-> {"DISABLED", "STANDBY", "ON"}, trigger |-> "off_succeeded", dest |-> "OFF"],
       [source |-> {"DISABLED", "STANDBY", "ON"}, trigger |-> "off_failed", dest |-> "FAULT"],
       [source |-> {"OFF", "STANDBY"}, trigger |-> "on_succeeded", dest |-> "ON"],
       [source |-> {"OFF"}, trigger |-> "on_failed", dest |-> "FAULT"] >>

DSM_transitions ==
    << [source |-> {"UNINITIALISED"}, trigger |-> "init_started", dest |-> "INIT"],
       [source |-> {"INIT", "FAULT", "DISABLED", "STANDBY", "OFF", "ON"},
        trigger |-> "fatal_error", dest |-> "FAULT"],
       [source |-> {"INIT"}, trigger |-> "init_succeeded_disabled", dest |-> "DISABLED"],
       [source |-> {"INIT"}, trigger |-> "init_succeeded_standby", dest |-> "STANDBY"],
       [source |-> {"INIT"}, trigger |-> "init_succeeded_off", dest |-> "OFF"],
       [source |-> {"INIT"}, trigger |-> "init_failed", dest |-> "FAULT"],
       [source |-> {"FAULT"}, trigger |-> "reset_succeeded_disabled", dest |-> "DISABLED"],
       [source |-> {"FAULT"}, trigger |-> "reset_succeeded_standby", dest |-> "STANDBY"],
       [source |-> {"FAULT"}, trigger |-> "reset_succeeded_off", dest |-> "OFF"],
       [source |-> {"FAULT"}, trigger |-> "reset_failed", dest |-> "FAULT"],
       [source |-> {"DISABLED", "OFF"}, trigger |-> "standby_succeeded", dest |-> "STANDBY"],
       [source |-> {"DISABLED", "OFF"}, trigger |-> "standby_failed", dest |-> "FAULT"],
       [source |-> {"STANDBY", "OFF"}, trigger |-> "disable_succeeded", dest |-> "DISABLED"],
       [source |-> {"STANDBY", "OFF"}, trigger |-> "disable_failed", dest |-> "FAULT"],
       [source |-> {"DISABLED", "STANDBY", "ON"}, trigger |-> "off_succeeded", dest |-> "OFF"],
       [source |-> {"DISABLED", "STANDBY", "ON"}, trigger |-> "off_failed", dest |-> "FAULT"],
       [source |-> {"OFF"}, trigger |-> "on_succeeded", dest |-> "ON"],
       [source |-> {"OFF"}, trigger |-> "on_failed", dest |-> "FAULT"] >>

DSM_triggers == TriggersOf(DSM_transitions)

\* The DevState that the on_enter callback of a state reports; UNINITIALISED
\* has no on_enter callback.
DSM_on_enter(state) ==
    CASE state = "INIT" -> "INIT"
      [] state = "FAULT" -> "FAULT"
      [] state = "DISABLED" -> "DISABLE"
      [] state = "STANDBY" -> "STANDBY"
      [] state = "OFF" -> "OFF"
      [] state = "ON" -> "ON"
      [] OTHER -> None

\* an _update_op_state that calls back whether or not the value changes
DSM_update_op_state_unguarded(current, op_state) ==
    <<op_state, <<op_state>> >>

\* _update_op_state: <<the new _op_state, the callback invocations>>
DSM_update_op_state(current, op_state) ==
    IF current # op_state
    THEN <<op_state, <<op_state>> >>
    ELSE <<current, << >> >>

DSM_Init ==
    /\ dsm_state = "UNINITIALISED"
    /\ dsm_op_state = None
    /\ dsm_last = [trigger |-> None, from |-> None, before |-> None, raised |-> FALSE, callbacks |-> << >>]

\* machine.trigger(t)
DSM_trigger(t) ==
    IF MayTrigger(DSM_transitions, dsm_state, t)
    THEN LET dest == DestOf(DSM_transitions, dsm_state, t)
             entered == DSM_on_enter(dest)
             upd == IF entered = None
                    THEN <<dsm_op_state, << >> >>
                    ELSE DSM_update_op_state(dsm_op_state, entered)
         IN /\ dsm_state' = dest
            /\ dsm_op_state' = upd[1]
            /\ dsm_last' = [trigger |-> t, from |-> dsm_state,
                            before |-> dsm_op_state, raised |-> FALSE,
                            callbacks |-> upd[2]]
    ELSE /\ dsm_last' = [trigger |-> t, from |-> dsm_state,
                            before |-> dsm_op_state, raised |-> TRUE,
                         callbacks |-> << >>]
         /\ UNCHANGED <<dsm_state, dsm_op_state>>

DSM_Trigger ==
    /\ \E t \in DSM_triggers : DSM_trigger(t)
    /\ UNCHANGED <<osm_vars, cmd_vars, bm_vars, ssm_vars, log_vars>>

(***************************************************************************)
(* ObservationStateMachine                                                 *)
(***************************************************************************)
\* states = [obs_state.name for obs_state in ObsState]
OSM_states ==
    {"EMPTY", "RESOURCING", "IDLE", "CONFIGURING", "READY", "SCANNING",
     "ABORTING", "ABORTED", "RESETTING", "FAULT", "RESTARTING"}

\* The transition list with one entry changed: End leaves the machine in READY.
OSM_transitions_end_stays_ready ==
    << [source |-> OSM_states, trigger |-> "fatal_error", dest |-> "FAULT"],
       [source |-> {"EMPTY", "IDLE"}, trigger |-> "assign_started", dest |-> "RESOURCING"],
       [source |-> {"IDLE"}, trigger |-> "release_started", dest |-> "RESOURCING"],
       [source |-> {"RESOURCING"}, trigger |-> "resourcing_succeeded_some_resources", dest |-> "IDLE"],
       [source |-> {"RESOURCING"}, trigger |-> "resourcing_succeeded_no_resources", dest |-> "EMPTY"],
       [source |-> {"RESOURCING"}, trigger |-> "resourcing_failed", dest |-> "FAULT"],
       [source |-> {"IDLE", "READY"}, trigger |-> "configure_started", dest |-> "CONFIGURING"],
       [source |-> {"CONFIGURING"}, trigger |-> "configure_succeeded", dest |-> "READY"],
       [source |-> {"CONFIGURING"}, trigger |-> "configure_failed", dest |-> "FAULT"],
       [source |-> {"READY"}, trigger |-> "end_succeeded", dest |-> "READY"],
       [source |-> {"READY"}, trigger |-> "end_failed", dest |-> "FAULT"],
       [source |-> {"READY"}, trigger |-> "scan_started", dest |-> "SCANNING"],
       [source |-> {"SCANNING"}, trigger |-> "scan_succeeded", dest |-> "READY"],
       [source |-> {"SCANNING"}, trigger |-> "scan_failed", dest |-> "FAULT"],
       [source |-> {"SCANNING"}, trigger |-> "end_scan_succeeded", dest |-> "READY"],
       [source |-> {"SCANNING"}, trigger |-> "end_scan_failed", dest |-> "FAULT"],
       [source |-> {"IDLE", "CONFIGURING", "READY", "SCANNING", "RESETTING"},
        trigger |-> "abort_started", dest |-> "ABORTING"],
       [source |-> {"ABORTING"}, trigger |-> "abort_succeeded", dest |-> "ABORTED"],
       [source |-> {"ABORTING"}, trigger |-> "abort_failed", dest |-> "FAULT"],
       [source |-> {"ABORTED", "FAULT"}, trigger |-> "obs_reset_started", dest |-> "RESETTING"],
       [source |-> {"RESETTING"}, trigger |-> "obs_reset_succeeded", dest |-> "IDLE"],
       [source |-> {"RESETTING"}, trigger |-> "obs_reset_failed", dest |-> "FAULT"],
       [source |-> {"ABORTED", "FAULT"}, trigger |-> "restart_started", dest |-> "RESTARTING"],
       [source |-> {"RESTARTING"}, trigger |-> "restart_succeeded", dest |-> "EMPTY"],
       [source |-> {"RESTARTING"}, trigger |-> "restart_failed", dest |-> "FAULT"] >>

\* transitions that offer no way out of FAULT
OSM_transitions_fault_is_final ==
    << [source |-> OSM_states, trigger |-> "fatal_error", dest |-> "FAULT"],
       [source |-> {"EMPTY", "IDLE"}, trigger |-> "assign_started", dest |-> "RESOURCING"],
       [source |-> {"IDLE"}, trigger |-> "release_started", dest |-> "RESOURCING"],
       [source |-> {"RESOURCING"}, trigger |-> "resourcing_succeeded_some_resources", dest |-> "IDLE"],
       [source |-> {"RESOURCING"}, trigger |-> "resourcing_succeeded_no_resources", dest |-> "EMPTY"],
       [source |-> {"RESOURCING"}, trigger |-> "resourcing_failed", dest |-> "FAULT"],
       [source |-> {"IDLE", "READY"}, trigger |-> "configure_started", dest |-> "CONFIGURING"],
       [source |-> {"CONFIGURING"}, trigger |-> "configure_succeeded", dest |-> "READY"],
       [source |-> {"CONFIGURING"}, trigger |-> "configure_failed", dest |-> "FAULT"],
       [source |-> {"READY"}, trigger |-> "end_succeeded", dest |-> "IDLE"],
       [source |-> {"READY"}, trigger |-> "end_failed", dest |-> "FAULT"],
       [source |-> {"READY"}, trigger |-> "scan_started", dest |-> "SCANNING"],
       [source |-> {"SCANNING"}, trigger |-> "scan_succeeded", dest |-> "READY"],
       [source |-> {"SCANNING"}, trigger |-> "scan_failed", dest |-> "FAULT"],
       [source |-> {"SCANNING"}, trigger |-> "end_scan_succeeded", dest |-> "READY"],
       [source |-> {"SCANNING"}, trigger |-> "end_scan_failed", dest |-> "FAULT"],
       [source |-> {"IDLE", "CONFIGURING", "READY", "SCANNING", "RESETTING"},
        trigger |-> "abort_started", dest |-> "ABORTING"],
       [source |-> {"ABORTING"}, trigger |-> "abort_succeeded", dest |-> "ABORTED"],
       [source |-> {"ABORTING"}, trigger |-> "abort_failed", dest |-> "FAULT"],
       [source |-> {"ABORTED"}, trigger |-> "obs_reset_started", dest |-> "RESETTING"],
       [source |-> {"RESETTING"}, trigger |-> "obs_reset_succeeded", dest |-> "IDLE"],
       [source |-> {"RESETTING"}, trigger |-> "obs_reset_failed", dest |-> "FAULT"],
       [source |-> {"ABORTED"}, trigger |-> "restart_started", dest |-> "RESTARTING"],
       [source |-> {"RESTARTING"}, trigger |-> "restart_succeeded", dest |-> "EMPTY"],
       [source |-> {"RESTARTING"}, trigger |-> "restart_failed", dest |-> "FAULT"] >>

\* source "*" stands for every state of the machine
OSM_transitions ==
    << [source |-> OSM_states, trigger |-> "fatal_error", dest |-> "FAULT"],
       [source |-> {"EMPTY", "IDLE"}, trigger |-> "assign_started", dest |-> "RESOURCING"],
       [source |-> {"IDLE"}, trigger |-> "release_started", dest |-> "RESOURCING"],
       [source |-> {"RESOURCING"}, trigger |-> "resourcing_succeeded_some_resources", dest |-> "IDLE"],
       [source |-> {"RESOURCING"}, trigger |-> "resourcing_succeeded_no_resources", dest |-> "EMPTY"],
       [source |-> {"RESOURCING"}, trigger |-> "resourcing_failed", dest |-> "FAULT"],
       [source |-> {"IDLE", "READY"}, trigger |-> "configure_started", dest |-> "CONFIGURING"],
       [source |-> {"CONFIGURING"}, trigger |-> "configure_succeeded", dest |-> "READY"],
       [source |-> {"CONFIGURING"}, trigger |-> "configure_failed", dest |-> "FAULT"],
       [source |-> {"READY"}, trigger |-> "end_succeeded", dest |-> "IDLE"],
       [source |-> {"READY"}, trigger |-> "end_failed", dest |-> "FAULT"],
       [source |-> {"READY"}, trigger |-> "scan_started", dest |-> "SCANNING"],
       [source |-> {"SCANNING"}, trigger |-> "scan_succeeded", dest |-> "READY"],
       [source |-> {"SCANNING"}, trigger |-> "scan_failed", dest |-> "FAULT"],
       [source |-> {"SCANNING"}, trigger |-> "end_scan_succeeded", dest |-> "READY"],
       [source |-> {"SCANNING"}, trigger |-> "end_scan_failed", dest |-> "FAULT"],
       [source |-> {"IDLE", "CONFIGURING", "READY", "SCANNING", "RESETTING"},
        trigger |-> "abort_started", dest |-> "ABORTING"],
       [source |-> {"ABORTING"}, trigger |-> "abort_succeeded", dest |-> "ABORTED"],
       [source |-> {"ABORTING"}, trigger |-> "abort_failed", dest |-> "FAULT"],
       [source |-> {"ABORTED", "FAULT"}, trigger |-> "obs_reset_started", dest |-> "RESETTING"],
       [source |-> {"RESETTING"}, trigger |-> "obs_reset_succeeded", dest |-> "IDLE"],
       [source |-> {"RESETTING"}, trigger |-> "obs_reset_failed", dest |-> "FAULT"],
       [source |-> {"ABORTED", "FAULT"}, trigger |-> "restart_started", dest |-> "RESTARTING"],
       [source |-> {"RESTARTING"}, trigger |-> "restart_succeeded", dest |-> "EMPTY"],
       [source |-> {"RESTARTING"}, trigger |-> "restart_failed", dest |-> "FAULT"] >>

OSM_triggers == TriggersOf(OSM_transitions)

\* _obs_state_changed: <<the new _obs_state, the callback invocations>>,
\* run after every executed transition with the machine's new state.
OSM_obs_state_changed(current, state) ==
    IF current # state
    THEN <<state, <<state>> >>
    ELSE <<current, << >> >>

OSM_Init ==
    /\ osm_state = "EMPTY"
    /\ osm_obs_state = "EMPTY"
    /\ osm_last = [trigger |-> None, from |-> None, before |-> None,
                   raised |-> FALSE, callbacks |-> << >>]

\* machine.trigger(t) with invalid triggers ignored instead of raising
OSM_trigger_ignore_invalid(t) ==
    IF MayTrigger(OSM_transitions, osm_state, t)
    THEN LET dest == DestOf(OSM_transitions, osm_state, t)
             upd == OSM_obs_state_changed(osm_obs_state, dest)
         IN /\ osm_state' = dest
            /\ osm_obs_state' = upd[1]
            /\ osm_last' = [trigger |-> t, from |-> osm_state,
                            before |-> osm_obs_state, raised |-> FALSE,
                            callbacks |-> upd[2]]
    ELSE /\ osm_last' = [trigger |-> t, from |-> osm_state,
                         before |-> osm_obs_state, raised |-> FALSE,
                         callbacks |-> << >>]
         /\ UNCHANGED <<osm_state, osm_obs_state>>

\* machine.trigger(t)
OSM_trigger(t) ==
    IF MayTrigger(OSM_transitions, osm_state, t)
    THEN LET dest == DestOf(OSM_transitions, osm_state, t)
             upd == OSM_obs_state_changed(osm_obs_state, dest)
         IN /\ osm_state' = dest
            /\ osm_obs_state' = upd[1]
            /\ osm_last' = [trigger |-> t, from |-> osm_state,
                            before |-> osm_obs_state, raised |-> FALSE,
                            callbacks |-> upd[2]]
    ELSE /\ osm_last' = [trigger |-> t, from |-> osm_state,
                         before |-> osm_obs_state, raised |-> TRUE,
                         callbacks |-> << >>]
         /\ UNCHANGED <<osm_state, osm_obs_state>>

OSM_Trigger ==
    /\ \E t \in OSM_triggers : OSM_trigger(t)
    /\ UNCHANGED <<dsm_vars, cmd_vars, bm_vars, ssm_vars, log_vars>>

(***************************************************************************)
(* DeviceStateModel, loaded with the subarray's transition table.          *)
(* A table entry <<state, action, dest>> stands for the dict entry         *)
(* (state, action): (dest, side-effect).                                   *)
(***************************************************************************)
\* dict.update: entries of new replace the entries of table with the same key
UpdateTransitions(table, new) ==
    {t \in table : ~\E n \in new : n[1] = t[1] /\ n[2] = t[2]} \cup new

\* SKASubarrayStateModel._subarray_transitions
SubarrayTransitions ==
    { <<"OFF", "on_succeeded", "EMPTY">>,
      <<"OFF", "on_failed", "FAULT">>,
      <<"EMPTY", "off_succeeded", "OFF">>,
      <<"EMPTY", "off_failed", "FAULT">>,
      <<"EMPTY", "assign_started", "RESOURCING">>,
      <<"EMPTY", "fatal_error", "OBSFAULT">>,
      <<"RESOURCING", "resourcing_succeeded_some_resources", "IDLE">>,
      <<"RESOURCING", "resourcing_succeeded_no_resources", "EMPTY">>,
      <<"RESOURCING", "resourcing_failed", "OBSFAULT">>,
      <<"RESOURCING", "fatal_error", "OBSFAULT">>,
      <<"IDLE", "assign_started", "RESOURCING">>,
      <<"IDLE", "release_started", "RESOURCING">>,
      <<"IDLE", "configure_started", "CONFIGURING">>,
      <<"IDLE", "abort_started", "ABORTING">>,
      <<"IDLE", "fatal_error", "OBSFAULT">>,
      <<"CONFIGURING", "configure_succeeded", "READY">>,
      <<"CONFIGURING", "configure_failed", "OBSFAULT">>,
      <<"CONFIGURING", "abort_started", "ABORTING">>,
      <<"CONFIGURING", "fatal_error", "OBSFAULT">>,
      <<"READY", "end_succeeded", "IDLE">>,
      <<"READY", "end_failed", "OBSFAULT">>,
      <<"READY", "configure_started", "CONFIGURING">>,
      <<"READY", "abort_started", "ABORTING">>,
      <<"READY", "scan_started", "SCANNING">>,
      <<"READY", "fatal_error", "OBSFAULT">>,
      <<"SCANNING", "scan_succeeded", "READY">>,
      <<"SCANNING", "scan_failed", "OBSFAULT">>,
      <<"SCANNING", "end_scan_succeeded", "READY">>,
      <<"SCANNING", "end_scan_failed", "OBSFAULT">>,
      <<"SCANNING", "abort_started", "ABORTING">>,
      <<"SCANNING", "fatal_error", "OBSFAULT">>,
      <<"ABORTING", "abort_succeeded", "ABORTED">>,
      <<"ABORTING", "abort_failed", "OBSFAULT">>,
      <<"ABORTING", "fatal_error", "OBSFAULT">>,
      <<"ABORTED", "obs_reset_started", "RESETTING">>,
      <<"ABORTED", "restart_started", "RESTARTING">>,
      <<"ABORTED", "fatal_error", "OBSFAULT">>,
      <<"OBSFAULT", "obs_reset_started", "RESETTING">>,
      <<"OBSFAULT", "restart_started", "RESTARTING">>,
      <<"OBSFAULT", "fatal_error", "OBSFAULT">>,
      <<"RESETTING", "obs_reset_succeeded", "IDLE">>,
      <<"RESETTING", "obs_reset_failed", "OBSFAULT">>,
      <<"RESETTING", "fatal_error", "OBSFAULT">>,
      <<"RESTARTING", "restart_succeeded", "EMPTY">>,
      <<"RESTARTING", "restart_failed", "OBSFAULT">>,
      <<"RESTARTING", "fatal_error", "OBSFAULT">> }

\* the table that a list of pytransitions transitions stands for
MachineTable(transitions) ==
    {<<p[2], transitions[p[1]].trigger, transitions[p[1]].dest>> :
        p \in {q \in (DOMAIN transitions) \X DSM_states :
                  q[2] \in transitions[q[1]].source}}

\* The table of a constructed SKASubarrayStateModel: the generic device
\* lifecycle, extended (update_transitions) by the subarray's transitions,
\* which enter the observation states where the generic device turns ON.
Transitions ==
    UpdateTransitions(MachineTable(DSM_transitions), SubarrayTransitions)

\* a dict in which release_started is accepted in EMPTY as well
SM_transitions_release_in_empty ==
    LET table == UpdateTransitions(Transitions,
                     {<<"EMPTY", "release_started", "RESOURCING">>})
    IN [key \in {<<t[1], t[2]>> : t \in table} |->
           (CHOOSE t \in table : t[1] = key[1] /\ t[2] = key[2])[3]]

\* a dict in which off_succeeded is accepted in IDLE as well
SM_transitions_off_from_idle ==
    LET table == UpdateTransitions(Transitions,
                     {<<"IDLE", "off_succeeded", "OFF">>})
    IN [key \in {<<t[1], t[2]>> : t \in table} |->
           (CHOOSE t \in table : t[1] = key[1] /\ t[2] = key[2])[3]]

\* a dict without the entry for abort_failed in ABORTING
SM_transitions_no_abort_failed ==
    LET table == Transitions \ {<<"ABORTING", "abort_failed", "OBSFAULT">>}
    IN [key \in {<<t[1], t[2]>> : t \in table} |->
           (CHOOSE t \in table : t[1] = key[1] /\ t[2] = key[2])[3]]

\* self._transitions: the dict from (state, action) to the state entered
SM_transitions ==
    [key \in {<<t[1], t[2]>> : t \in Transitions} |->
        (CHOOSE t \in Transitions : t[1] = key[1] /\ t[2] = key[2])[3]]

SM_states == {t[1] : t \in Transitions} \cup {t[3] : t \in Transitions}
SM_actions == {t[2] : t \in Transitions}

\* DeviceStateModel.is_action_allowed
SM_is_action_allowed(state, action) ==
    <<state, action>> \in DOMAIN SM_transitions

\* the state that the entry under (state, action) leads to
SM_dest(state, action) ==
    SM_transitions[<<state, action>>]

(***************************************************************************)
(* The command envelope: ActionCommand and DualActionCommand, and the      *)
(* SKASubarray commands built on them.                                     *)
(***************************************************************************)
Resources == {"A", "B"}
MaxArgLen == 1

\* the lists of resources that a resourcing command may be handed
ResourceLists ==
    UNION {[1..n -> Resources] : n \in 0..MaxArgLen}

\* ReturnCode, plus RAISE for a do() that raises instead of returning
ReturnCodes == {"OK", "STARTED", "QUEUED", "FAILED", "UNKNOWN"}
DoOutcomes == ReturnCodes \cup {"RAISE"}

\* A command: its class (kind), the action_hook it was constructed with, and
\* whether it overrides succeeded()/failed() as _ResourcingCommand does.
Command(name, kind, hook, resourcing) ==
    [name |-> name, kind |-> kind, hook |-> hook, resourcing |-> resourcing]

Commands ==
    { Command("On", "action", "on", FALSE),
      Command("Off", "action", "off", FALSE),
      Command("AssignResources", "dual", "assign", TRUE),
      Command("ReleaseResources", "dual", "release", TRUE),
      Command("ReleaseAllResources", "dual", "release", TRUE),
      Command("Configure", "dual", "configure", FALSE),
      Command("Scan", "dual", "scan", FALSE),
      Command("EndScan", "action", "end_scan", FALSE),
      Command("End", "action", "end", FALSE),
      Command("Abort", "dual", "abort", FALSE),
      Command("ObsReset", "dual", "obs_reset", FALSE),
      Command("Restart", "dual", "restart", FALSE),
      Command("SetLoggingLevel", "action", None, FALSE),
      Command("DualActionCommand", "dual", None, FALSE) }

\* the commands built with an action hook
HookedCommands == {c \in Commands : c.hook # None}

CommandNames == {c.name : c \in Commands}
CommandNamed(name) == CHOOSE c \in Commands : c.name = name

\* the CapabilityTypes device property, and a type that is not in it
CapabilityTypes == {"BAND1", "BAND2"}
RequestedTypes == CapabilityTypes \cup {"BAND3"}
MaxInstances == 1

\* the argin of Configure: <<numbers of instances, capability types>>
ConfigureArgs ==
    {<< <<1>>, <<t>> >> : t \in RequestedTypes} \cup
    {<< <<1>>, << >> >>, << << >>, <<"BAND1">> >>, << << >>, << >> >>}

\* the arguments a command is called with
ArgsOf(c) ==
    IF c.name \in {"AssignResources", "ReleaseResources"}
    THEN ResourceLists
    ELSE IF c.name = "Configure"
         THEN ConfigureArgs
         ELSE {None}

StartedHook(c) == c.hook \o "_started"
SucceededHook(c) == c.hook \o "_succeeded"
FailedHook(c) == c.hook \o "_failed"

\* an _assign_resources that appends without looking
AssignResourcesAppend(list, resources) == list \o resources

\* SKASubarray._assign_resources
RECURSIVE AssignResources(_, _)
AssignResources(list, resources) ==
    IF resources = << >>
    THEN list
    ELSE LET r == Head(resources)
             in == \E i \in DOMAIN list : list[i] = r
         IN AssignResources(IF in THEN list ELSE Append(list, r), Tail(resources))

\* list.remove(r): removes the first occurrence
RemoveFirst(list, r) ==
    LET i == SeqMin({j \in DOMAIN list : list[j] = r})
    IN SubSeq(list, 1, i - 1) \o SubSeq(list, i + 1, Len(list))

\* SKASubarray._release_resources
RECURSIVE ReleaseResources(_, _)
ReleaseResources(list, resources) ==
    IF resources = << >>
    THEN list
    ELSE LET r == Head(resources)
             in == \E i \in DOMAIN list : list[i] = r
         IN ReleaseResources(IF in THEN RemoveFirst(list, r) ELSE list, Tail(resources))

\* a _release_all_resources that leaves the first resource assigned
ReleaseAllResourcesKeepsFirst(list) ==
    IF list = << >> THEN list ELSE <<Head(list)>>

\* SKASubarray._release_all_resources
ReleaseAllResources(list) == << >>

\* an is_resourced that always answers yes
IsResourcedAlways(list) == Len(list) >= 0

\* SKASubarray.is_resourced
IsResourced(list) == list # << >>

\* an ObsReset whose do() releases every resource
DoEffectObsResetReleases(c, argin, list) ==
    CASE c.name = "AssignResources" -> AssignResources(list, argin)
      [] c.name = "ReleaseResources" -> ReleaseResources(list, argin)
      [] c.name \in {"ReleaseAllResources", "Restart", "ObsReset"} ->
             ReleaseAllResources(list)
      [] OTHER -> list

\* a Restart whose do() releases nothing
DoEffectRestartKeeps(c, argin, list) ==
    CASE c.name = "AssignResources" -> AssignResources(list, argin)
      [] c.name = "ReleaseResources" -> ReleaseResources(list, argin)
      [] c.name = "ReleaseAllResources" -> ReleaseAllResources(list)
      [] OTHER -> list

\* what the do() of a command does to the assigned resources when it runs
\* to completion
DoEffect(c, argin, list) ==
    CASE c.name = "AssignResources" -> AssignResources(list, argin)
      [] c.name = "ReleaseResources" -> ReleaseResources(list, argin)
      [] c.name = "ReleaseAllResources" -> ReleaseAllResources(list)
      [] c.name = "Restart" -> ReleaseAllResources(list)
      [] OTHER -> list

\* a validation that leaves out _validate_input_sizes
ValidateConfigureTypesOnly(argin, conf) ==
    \A i \in DOMAIN argin[2] : argin[2][i] \in DOMAIN conf

\* SKASubarray._validate_capability_types and
\* ConfigureCommand._validate_input_sizes: TRUE when neither raises
ValidateConfigure(argin, conf) ==
    /\ \A i \in DOMAIN argin[2] : argin[2][i] \in DOMAIN conf
    /\ Len(argin[1]) = Len(argin[2])

\* the loop of ConfigureCommand.do over zip(instances, types); the argin
\* lists hold at most one entry
Configure(argin, conf) ==
    IF argin[1] = << >> \/ argin[2] = << >>
    THEN conf
    ELSE [conf EXCEPT ![argin[2][1]] = @ + argin[1][1]]

\* the number of capability instances configured, over all types
Instances(conf) ==
    LET RECURSIVE Sum(_)
        Sum(types) ==
            IF types = {}
            THEN 0
            ELSE LET t == CHOOSE x \in types : TRUE
                 IN conf[t] + Sum(types \ {t})
    IN Sum(DOMAIN conf)

\* a _deconfigure that leaves the counts as they are
DeconfigureKeeps(conf) == conf

\* SKASubarray._deconfigure
Deconfigure(conf) == [k \in DOMAIN conf |-> 0]

\* a Restart whose do() does not deconfigure
DoConfiguredRestartSkips(c, argin, conf) ==
    CASE c.name = "Configure" -> Configure(argin, conf)
      [] c.name \in {"End", "ObsReset"} -> Deconfigure(conf)
      [] OTHER -> conf

\* an ObsReset whose do() does not deconfigure
DoConfiguredObsResetSkips(c, argin, conf) ==
    CASE c.name = "Configure" -> Configure(argin, conf)
      [] c.name \in {"End", "Restart"} -> Deconfigure(conf)
      [] OTHER -> conf

\* what the do() of a command does to the configured capabilities when it
\* runs to completion
DoConfigured(c, argin, conf) ==
    CASE c.name = "Configure" -> Configure(argin, conf)
      [] c.name \in {"End", "ObsReset", "Restart"} -> Deconfigure(conf)
      [] OTHER -> conf

\* The return code of the do() that the command class comes with; a subclass
\* may override do() and end in any of DoOutcomes.
DoReturns(c) == IF c.name = "Scan" THEN "STARTED" ELSE "OK"

\* The ways the do() of a call may end: the validation of Configure raises
\* on an invalid argin.
OutcomesOf(c, argin, conf) ==
    IF c.name = "Configure" /\ ~ValidateConfigure(argin, conf)
    THEN {"RAISE"}
    ELSE DoOutcomes

\* The message that do() returns along with its return code.
DoMessage(c, code) == <<c.name, code>>

(***************************************************************************)
(* A run of __call__ is a record: the state model's state, the target's    *)
(* resources, the actions performed on the state model so far, the number  *)
(* of calls of do(), what do() returned, and the exception in flight.      *)
(***************************************************************************)
NewRun(state, list, conf) ==
    [state |-> state, assigned |-> list, configured |-> conf,
     actions |-> << >>, entered |-> << >>, doCalls |-> 0, doAt |-> None,
     returned |-> None, exc |-> None]

\* a perform_action that lets an action that is not allowed pass in silence
PerformActionSilent(r, action) ==
    IF r.exc # None
    THEN r
    ELSE IF SM_is_action_allowed(r.state, action)
         THEN [r EXCEPT !.state = SM_dest(r.state, action),
                        !.actions = Append(@, action),
                        !.entered = Append(@, SM_dest(r.state, action))]
         ELSE r

\* DeviceStateModel.perform_action within a run
PerformAction(r, action) ==
    IF r.exc # None
    THEN r
    ELSE IF SM_is_action_allowed(r.state, action)
         THEN [r EXCEPT !.state = SM_dest(r.state, action),
                        !.actions = Append(@, action),
                        !.entered = Append(@, SM_dest(r.state, action))]
         ELSE [r EXCEPT !.exc = "StateModelError"]

\* check_allowed always passing
CheckAllowedAlways(c, state) == TRUE

\* check_allowed of a command class that takes every action_hook, None
\* included, for the prefix of its actions
CheckAllowedHookRequired(c, state) ==
    IF c.kind = "dual"
    THEN SM_is_action_allowed(state, StartedHook(c))
    ELSE SM_is_action_allowed(state, SucceededHook(c))

\* ActionCommand.check_allowed / DualActionCommand.check_allowed:
\* TRUE when it returns True, FALSE when it raises StateModelError
CheckAllowed(c, state) ==
    IF c.hook = None
    THEN TRUE
    ELSE IF c.kind = "dual"
         THEN SM_is_action_allowed(state, StartedHook(c))
         ELSE SM_is_action_allowed(state, SucceededHook(c))

\* ActionCommand.is_allowed / DualActionCommand.is_allowed
IsAllowed(c, state) ==
    IF c.hook = None
    THEN TRUE
    ELSE IF c.kind = "dual"
         THEN SM_is_action_allowed(state, StartedHook(c))
         ELSE SM_is_action_allowed(state, SucceededHook(c))

\* started() performing nothing
StartedSkipped(c, r) == r

\* DualActionCommand.started; an ActionCommand has no started step
Started(c, r) ==
    IF c.kind = "dual" /\ c.hook # None
    THEN PerformAction(r, StartedHook(c))
    ELSE r

\* _call_do: do() returns (outcome, message), or raises
CallDo(c, r, argin, outcome) ==
    IF r.exc # None
    THEN r
    ELSE IF outcome = "RAISE"
         THEN [r EXCEPT !.doCalls = @ + 1, !.doAt = Len(r.actions),
                        !.exc = "DoError"]
         ELSE [r EXCEPT !.doCalls = @ + 1, !.doAt = Len(r.actions),
                        !.returned = <<outcome, DoMessage(c, outcome)>>,
                        !.assigned = IF outcome = "OK"
                                     THEN DoEffect(c, argin, @)
                                     ELSE @,
                        !.configured = IF outcome = "OK"
                                       THEN DoConfigured(c, argin, @)
                                       ELSE @]

\* succeeded(), with the override of _ResourcingCommand
Succeeded(c, r) ==
    IF c.resourcing
    THEN PerformAction(r, IF IsResourced(r.assigned)
                          THEN "resourcing_succeeded_some_resources"
                          ELSE "resourcing_succeeded_no_resources")
    ELSE IF c.hook # None
         THEN PerformAction(r, SucceededHook(c))
         ELSE r

\* failed(); the override of _ResourcingCommand reads self._state_model, an
\* attribute that no command has (the constructor sets self.state_model)
Failed(c, r) ==
    IF c.resourcing
    THEN [r EXCEPT !.exc = "AttributeError"]
    ELSE IF c.hook # None
         THEN PerformAction(r, FailedHook(c))
         ELSE r

\* _returned of a DualActionCommand used for every command
ReturnedLenient(c, r) ==
    IF r.exc # None
    THEN r
    ELSE CASE r.returned[1] = "OK" -> Succeeded(c, r)
           [] r.returned[1] = "FAILED" -> Failed(c, r)
           [] OTHER -> r

\* _returned with the two completions swapped
ReturnedSwapped(c, r) ==
    IF r.exc # None
    THEN r
    ELSE CASE r.returned[1] = "OK" -> Failed(c, r)
           [] r.returned[1] = "FAILED" -> Succeeded(c, r)
           [] OTHER -> IF c.kind = "action"
                       THEN [r EXCEPT !.exc = "ReturnCodeError"]
                       ELSE r

\* ActionCommand._returned / DualActionCommand._returned
Returned(c, r) ==
    IF r.exc # None
    THEN r
    ELSE CASE r.returned[1] = "OK" -> Succeeded(c, r)
           [] r.returned[1] = "FAILED" -> Failed(c, r)
           [] OTHER -> IF c.kind = "action"
                       THEN [r EXCEPT !.exc = "ReturnCodeError"]
                       ELSE r

\* an except clause that ReturnCodeError escapes, as it would were it raised
\* outside the try block
OnExceptionSparesReturnCodeError(r) ==
    IF r.exc = None \/ r.exc = "ReturnCodeError"
    THEN r
    ELSE LET f == PerformAction([r EXCEPT !.exc = None], "fatal_error")
         IN IF f.exc = None THEN [f EXCEPT !.exc = r.exc] ELSE f

\* the except clause without its fatal_error() call
OnExceptionNoFatal(r) == r

\* The except clause of __call__: fatal_error() and re-raise. When
\* fatal_error is itself rejected, its StateModelError is what propagates.
OnException(r) ==
    IF r.exc = None
    THEN r
    ELSE LET f == PerformAction([r EXCEPT !.exc = None], "fatal_error")
         IN IF f.exc = None THEN [f EXCEPT !.exc = r.exc] ELSE f

\* the body of __call__ with started() moved behind do()
BodyStartedAfterDo(c, state, list, conf, argin, outcome) ==
    LET r0 == NewRun(state, list, conf)
        r1 == CallDo(c, r0, argin, outcome)
        r2 == Started(c, r1)
        r3 == Returned(c, r2)
    IN OnException(r3)

\* the body of __call__ after check_allowed()
Body(c, state, list, conf, argin, outcome) ==
    LET r0 == NewRun(state, list, conf)
        r1 == Started(c, r0)
        r2 == CallDo(c, r1, argin, outcome)
        r3 == Returned(c, r2)
    IN OnException(r3)

\* The outcome of a call as the caller sees it
CallRecord(c, argin, outcome, state, list, conf, r) ==
    [name |-> c.name, argin |-> argin, outcome |-> outcome,
     from |-> state, before |-> list, configuredBefore |-> conf,
     actions |-> r.actions, entered |-> r.entered, doCalls |-> r.doCalls,
     doAt |-> r.doAt,
     raised |-> r.exc,
     result |-> IF r.exc = None THEN r.returned ELSE None]

NoCall ==
    [name |-> None, argin |-> None, outcome |-> None, from |-> None,
     before |-> << >>, configuredBefore |-> [t \in CapabilityTypes |-> 0],
     actions |-> << >>, entered |-> << >>, doCalls |-> 0, doAt |-> None,
     raised |-> None, result |-> None]

CMD_Init ==
    /\ sm_state = "UNINITIALISED"
    /\ assigned = << >>
    /\ configured = [t \in CapabilityTypes |-> 0]
    /\ cmd_last = NoCall

\* command(argin), with do() ending in outcome
Call(c, argin, outcome) ==
    IF ~CheckAllowed(c, sm_state)
    THEN /\ cmd_last' = CallRecord(c, argin, None, sm_state, assigned,
                                   configured,
                                   [NewRun(sm_state, assigned, configured)
                                        EXCEPT !.exc = "StateModelError"])
         /\ UNCHANGED <<sm_state, assigned, configured>>
    ELSE LET r == Body(c, sm_state, assigned, configured, argin, outcome)
         IN /\ Instances(r.configured) <= MaxInstances
            /\ sm_state' = r.state
            /\ assigned' = r.assigned
            /\ configured' = r.configured
            /\ cmd_last' = CallRecord(c, argin, outcome, sm_state, assigned,
                                      configured, r)

CommandCall ==
    /\ \E c \in Commands : \E argin \in ArgsOf(c) :
          \E outcome \in IF CheckAllowed(c, sm_state)
                          THEN OutcomesOf(c, argin, configured)
                          ELSE {None} :
              Call(c, argin, outcome)
    /\ UNCHANGED <<dsm_vars, osm_vars, bm_vars, ssm_vars, log_vars>>

\* The actions that the device performs on its state model outside the
\* commands above: initialisation, reset, standby and disable.
LifecycleActions ==
    {"init_started", "init_succeeded_disabled", "init_succeeded_standby",
     "init_succeeded_off", "init_failed", "reset_succeeded_disabled",
     "reset_succeeded_standby", "reset_succeeded_off", "reset_failed",
     "standby_succeeded", "standby_failed", "disable_succeeded",
     "disable_failed"}

\* state_model.perform_action(action)
Lifecycle(action) ==
    LET r == PerformAction(NewRun(sm_state, assigned, configured), action)
    IN /\ sm_state' = r.state
       /\ cmd_last' = [NoCall EXCEPT !.name = "perform_action",
                                     !.argin = action,
                                     !.from = sm_state,
                                     !.actions = r.actions,
                                     !.entered = r.entered,
                                     !.raised = r.exc]
       /\ UNCHANGED <<assigned, configured>>

LifecycleAction ==
    /\ \E action \in LifecycleActions : Lifecycle(action)
    /\ UNCHANGED <<dsm_vars, osm_vars, bm_vars, ssm_vars, log_vars>>

\* succeeded() or failed() of a DualActionCommand, called by a completion
\* callback after the call of the command has returned
Completion(c, which) ==
    LET r0 == NewRun(sm_state, assigned, configured)
        r == IF which = "succeeded" THEN Succeeded(c, r0) ELSE Failed(c, r0)
    IN /\ sm_state' = r.state
       /\ cmd_last' = [NoCall EXCEPT !.name = which,
                                     !.argin = c.name,
                                     !.from = sm_state,
                                     !.actions = r.actions,
                                     !.entered = r.entered,
                                     !.raised = r.exc]
       /\ UNCHANGED <<assigned, configured>>

CompletionCallback ==
    /\ \E c \in {d \in HookedCommands : d.kind = "dual"} :
          \E which \in {"succeeded", "failed"} : Completion(c, which)
    /\ UNCHANGED <<dsm_vars, osm_vars, bm_vars, ssm_vars, log_vars>>

\* How the do() that a command class comes with ends: Configure raises on an
\* invalid argin, Scan returns STARTED, every other do() returns OK.
DoOf(c, argin, conf) ==
    IF c.name = "Configure" /\ ~ValidateConfigure(argin, conf)
    THEN "RAISE"
    ELSE DoReturns(c)

\* a command of the SKASubarray called, running its own do()
SubarrayCall ==
    /\ \E c \in HookedCommands : \E argin \in ArgsOf(c) :
          Call(c, argin, IF CheckAllowed(c, sm_state)
                         THEN DoOf(c, argin, configured)
                         ELSE None)
    /\ UNCHANGED <<dsm_vars, osm_vars, bm_vars, ssm_vars, log_vars>>

\* The ways the do() of a command of the subarray may end: as the do() it
\* comes with ends, or, overridden or meeting an error before it has changed
\* anything, by returning FAILED or by raising.
FailingOutcomes(c, argin, conf) == {DoOf(c, argin, conf), "FAILED", "RAISE"}

\* a command of the SKASubarray called, its do() ending in one of these ways
FailingCall ==
    /\ \E c \in HookedCommands : \E argin \in ArgsOf(c) :
          \E outcome \in IF CheckAllowed(c, sm_state)
                          THEN FailingOutcomes(c, argin, configured)
                          ELSE {None} :
              Call(c, argin, outcome)
    /\ UNCHANGED <<dsm_vars, osm_vars, bm_vars, ssm_vars, log_vars>>

\* try_action carrying the action out, as perform_action does
TryActionPerforms(r, action) == PerformAction(r, action)

\* DeviceStateModel.try_action within a run: True, or StateModelError
TryAction(r, action) ==
    IF r.exc # None
    THEN r
    ELSE IF SM_is_action_allowed(r.state, action)
         THEN [r EXCEPT !.returned = "True"]
         ELSE [r EXCEPT !.exc = "StateModelError"]

\* DeviceStateModel.is_action_allowed within a run
IsActionAllowed(r, action) ==
    [r EXCEPT !.returned = IF SM_is_action_allowed(r.state, action)
                           THEN "True" ELSE "False"]

\* The permission queries: is_allowed() and check_allowed() of a command
\* (the is_<Command>_allowed() methods of the device return
\* check_allowed() of their command), and is_action_allowed() and
\* try_action() of the state model.
Queries == {"is_allowed", "check_allowed", "is_action_allowed", "try_action"}

\* The action that a command asks the state model about, None when the
\* command has no hook
QueriedHook(c) ==
    IF c.hook = None
    THEN None
    ELSE IF c.kind = "dual" THEN StartedHook(c) ELSE SucceededHook(c)

\* one permission query run in the current state; what is a command for
\* the queries of a command, an action for those of the state model
QueryRun(which, what, r) ==
    CASE which = "is_allowed" ->
             IF QueriedHook(what) = None
             THEN [r EXCEPT !.returned = "True"]
             ELSE IsActionAllowed(r, QueriedHook(what))
      [] which = "check_allowed" ->
             IF QueriedHook(what) = None
             THEN [r EXCEPT !.returned = "True"]
             ELSE TryAction(r, QueriedHook(what))
      [] which = "is_action_allowed" -> IsActionAllowed(r, what)
      [] OTHER -> TryAction(r, what)

Query(which, what, label) ==
    LET r == QueryRun(which, what, NewRun(sm_state, assigned, configured))
    IN /\ sm_state' = r.state
       /\ assigned' = r.assigned
       /\ configured' = r.configured
       /\ cmd_last' = [NoCall EXCEPT !.name = which,
                                     !.argin = label,
                                     !.from = sm_state,
                                     !.before = assigned,
                                     !.configuredBefore = configured,
                                     !.actions = r.actions,
                                     !.entered = r.entered,
                                     !.raised = r.exc,
                                     !.result = IF r.exc = None
                                                THEN r.returned ELSE None]

PermissionQuery ==
    /\ \/ \E c \in Commands : \E which \in {"is_allowed", "check_allowed"} :
             Query(which, c, c.name)
       \/ \E action \in SM_actions :
             \E which \in {"is_action_allowed", "try_action"} :
                Query(which, action, action)
    /\ UNCHANGED <<dsm_vars, osm_vars, bm_vars, ssm_vars, log_vars>>

(***************************************************************************)
(* SKABaseDeviceStateModel (src/src/ska/base/base_device.py): the op state *)
(* and the admin mode of a device, changed by actions that are methods,    *)
(* each decorated with a check of its is_..._allowed method.               *)
(***************************************************************************)
BM_actions ==
    {"to_notfitted", "to_offline", "to_maintenance", "to_online",
     "init_started", "init_succeeded", "init_failed", "to_fault",
     "reset_succeeded", "reset_failed"}

\* the actions that write_adminMode calls
BM_admin_actions ==
    {"to_notfitted", "to_offline", "to_maintenance", "to_online"}

\* _set_state: <<the new _state, the state_callback invocations>>
BM_set_state(current, state) ==
    IF state # current
    THEN <<state, <<state>> >>
    ELSE <<current, << >> >>

\* an _is_set_admin_mode_allowed that also allows FAULT
BM_is_set_admin_mode_allowed_in_fault(state) ==
    state \in {"DISABLE", "OFF", "FAULT"}

BM_is_set_admin_mode_allowed(state) == state \in {"DISABLE", "OFF"}
BM_is_init_started_allowed(state) == state = "UNKNOWN"
BM_is_init_completed_allowed(state) == state = "INIT"
BM_is_to_fault_allowed(state) == TRUE
BM_is_reset_allowed(state) == TRUE

\* @check_first(name): the is_<name>_allowed method that guards the action,
\* <name> being the name of the action unless the decorator is given one
BM_check_first(action, state) ==
    CASE action \in BM_admin_actions -> BM_is_set_admin_mode_allowed(state)
      [] action = "init_started" -> BM_is_init_started_allowed(state)
      [] action \in {"init_succeeded", "init_failed"} ->
            BM_is_init_completed_allowed(state)
      [] action = "to_fault" -> BM_is_to_fault_allowed(state)
      [] action \in {"reset_succeeded", "reset_failed"} ->
            BM_is_reset_allowed(state)

\* OFF or DISABLE, as init_succeeded and reset_succeeded choose by the
\* admin mode
BM_base_state(admin_mode) ==
    IF admin_mode \in {"ONLINE", "MAINTENANCE"} THEN "OFF" ELSE "DISABLE"

\* the body of an action: <<the _admin_mode it leaves, the state it sets>>
BM_body(action, admin_mode) ==
    CASE action = "to_notfitted" -> <<"NOT_FITTED", "DISABLE">>
      [] action = "to_offline" -> <<"OFFLINE", "DISABLE">>
      [] action = "to_maintenance" -> <<"MAINTENANCE", "OFF">>
      [] action = "to_online" -> <<"MAINTENANCE", "OFF">>
      [] action = "init_started" -> <<"MAINTENANCE", "INIT">>
      [] action \in {"init_succeeded", "reset_succeeded"} ->
            <<admin_mode, BM_base_state(admin_mode)>>
      [] action \in {"init_failed", "to_fault", "reset_failed"} ->
            <<admin_mode, "FAULT">>

BM_Init ==
    /\ bm_state = "UNKNOWN"
    /\ bm_admin_mode = None
    /\ bm_last = [action |-> None, argin |-> None, from |-> None,
                  admin_before |-> None, raised |-> FALSE,
                  callbacks |-> << >>]

\* model.<action>(), called directly (argin is None) or by
\* write_adminMode(argin)
BM_perform(action, argin) ==
    IF BM_check_first(action, bm_state)
    THEN LET body == BM_body(action, bm_admin_mode)
             upd == BM_set_state(bm_state, body[2])
         IN /\ bm_admin_mode' = body[1]
            /\ bm_state' = upd[1]
            /\ bm_last' = [action |-> action, argin |-> argin,
                           from |-> bm_state,
                           admin_before |-> bm_admin_mode,
                           raised |-> FALSE, callbacks |-> upd[2]]
    ELSE /\ bm_last' = [action |-> action, argin |-> argin,
                        from |-> bm_state,
                        admin_before |-> bm_admin_mode,
                        raised |-> TRUE, callbacks |-> << >>]
         /\ UNCHANGED <<bm_state, bm_admin_mode>>

BM_action(action) == BM_perform(action, None)

\* AdminMode
AdminModes == {"ONLINE", "OFFLINE", "MAINTENANCE", "NOT_FITTED", "RESERVED"}

\* SKABaseDevice.write_adminMode(value): the action of the value, or a
\* ValueError for a value that has none
BM_write_adminMode(value) ==
    CASE value = "NOT_FITTED" -> BM_perform("to_notfitted", value)
      [] value = "OFFLINE" -> BM_perform("to_offline", value)
      [] value = "MAINTENANCE" -> BM_perform("to_maintenance", value)
      [] value = "ONLINE" -> BM_perform("to_online", value)
      [] OTHER ->
            /\ bm_last' = [action |-> None, argin |-> value,
                           from |-> bm_state,
                           admin_before |-> bm_admin_mode,
                           raised |-> TRUE, callbacks |-> << >>]
            /\ UNCHANGED <<bm_state, bm_admin_mode>>

BM_Action ==
    /\ \E action \in BM_actions : BM_action(action)
    /\ UNCHANGED <<dsm_vars, osm_vars, cmd_vars, ssm_vars, log_vars>>

BM_WriteAdminMode ==
    /\ \E value \in AdminModes : BM_write_adminMode(value)
    /\ UNCHANGED <<dsm_vars, osm_vars, cmd_vars, ssm_vars, log_vars>>

(***************************************************************************)
(* The side effects of the subarray state model's table: every entry sets  *)
(* the op state (_set_state) or reports an obs state (_set_obs_state).     *)
(***************************************************************************)
\* the states of the table that are the observation states of an ON device
ObsSubStates ==
    {"EMPTY", "RESOURCING", "IDLE", "CONFIGURING", "READY", "SCANNING",
     "ABORTING", "ABORTED", "OBSFAULT", "RESETTING", "RESTARTING"}

\* the ObsState that the side effect of an entry leading to a state reports
ObsStateOf(state) == IF state = "OBSFAULT" THEN "FAULT" ELSE state

\* A side effect: the op state it sets and the obs state it reports, None
\* where it does neither.
SideEffect(op_state, obs_state) == [op |-> op_state, obs |-> obs_state]

\* the lambdas of SKASubarrayStateModel._subarray_transitions
SubarraySideEffect(action, dest) ==
    CASE action = "on_succeeded" -> SideEffect("ON", None)
      [] action \in {"on_failed", "off_failed"} -> SideEffect("FAULT", None)
      [] action = "off_succeeded" -> SideEffect("OFF", None)
      [] OTHER -> SideEffect(None, ObsStateOf(dest))

\* The side effects of the generic lifecycle: the op state of the state
\* entered; that of init_started, which SKAObsDeviceStateModel replaces,
\* also reports obs state EMPTY.
LifecycleSideEffect(action, dest) ==
    IF action = "init_started"
    THEN SideEffect("INIT", "EMPTY")
    ELSE SideEffect(DSM_on_enter(dest), None)

\* the side effect of the entry under (state, action)
SM_side_effect(state, action) ==
    LET dest == SM_dest(state, action)
    IN IF <<state, action, dest>> \in SubarrayTransitions
       THEN SubarraySideEffect(action, dest)
       ELSE LifecycleSideEffect(action, dest)

\* SKAObsDeviceStateModel._set_obs_state: <<the obs state reported last,
\* the obs_state_callback invocations>>
SSM_set_obs_state(current, obs_state) == <<obs_state, <<obs_state>> >>

SSM_Init ==
    /\ ssm_state = "UNINITIALISED"
    /\ ssm_op_state = "UNKNOWN"
    /\ ssm_obs_state = None
    /\ ssm_last = [action |-> None, from |-> None, op_before |-> None,
                   obs_before |-> None, raised |-> FALSE,
                   op_callbacks |-> << >>, obs_callbacks |-> << >>]

\* DeviceStateModel.perform_action(action), side effect included
SSM_perform_action(action) ==
    IF SM_is_action_allowed(ssm_state, action)
    THEN LET effect == SM_side_effect(ssm_state, action)
             op == IF effect.op = None
                   THEN <<ssm_op_state, << >> >>
                   ELSE BM_set_state(ssm_op_state, effect.op)
             obs == IF effect.obs = None
                    THEN <<ssm_obs_state, << >> >>
                    ELSE SSM_set_obs_state(ssm_obs_state, effect.obs)
         IN /\ ssm_state' = SM_dest(ssm_state, action)
            /\ ssm_op_state' = op[1]
            /\ ssm_obs_state' = obs[1]
            /\ ssm_last' = [action |-> action, from |-> ssm_state,
                            op_before |-> ssm_op_state,
                            obs_before |-> ssm_obs_state, raised |-> FALSE,
                            op_callbacks |-> op[2],
                            obs_callbacks |-> obs[2]]
    ELSE /\ ssm_last' = [action |-> action, from |-> ssm_state,
                         op_before |-> ssm_op_state,
                         obs_before |-> ssm_obs_state, raised |-> TRUE,
                         op_callbacks |-> << >>, obs_callbacks |-> << >>]
         /\ UNCHANGED <<ssm_state, ssm_op_state, ssm_obs_state>>

SSM_PerformAction ==
    /\ \E action \in SM_actions : SSM_perform_action(action)
    /\ UNCHANGED <<dsm_vars, osm_vars, cmd_vars, bm_vars, log_vars>>

(***************************************************************************)
(* SKABaseDevice._init_logging run by the devices of one device server,    *)
(* each in its own thread: the process-wide logging configuration is       *)
(* applied under a class-level lock, guarded by a class-level flag.        *)
(***************************************************************************)
NumDevices == 4
Devices == 1..NumDevices

\* the holder of a lock that nobody holds
Unlocked == 0

\* calls of configure_logging after which the model stops counting
MaxConfigureCalls == 3

LOG_Init ==
    /\ logging_config_lock = Unlocked
    /\ logging_configured = FALSE
    /\ init_logging_pc = [d \in Devices |-> "start"]
    /\ configure_logging_calls = 0
    /\ configure_logging_returns = 0

\* a lock that anyone may take at any time
LOG_lock_always_free(lock) == TRUE

\* Lock.acquire blocks until the lock is free
LOG_lock_free(lock) == lock = Unlocked

\* with SKABaseDevice._logging_config_lock: (entering)
LOG_acquire(d) ==
    /\ init_logging_pc[d] = "start"
    /\ LOG_lock_free(logging_config_lock)
    /\ logging_config_lock' = d
    /\ init_logging_pc' = [init_logging_pc EXCEPT ![d] = "locked"]
    /\ UNCHANGED <<logging_configured, configure_logging_calls,
                   configure_logging_returns>>

\* if not SKABaseDevice._logging_configured:
LOG_test_flag(d) ==
    /\ init_logging_pc[d] = "locked"
    /\ init_logging_pc' = [init_logging_pc EXCEPT ![d] =
            IF logging_configured THEN "unlock" ELSE "configure"]
    /\ UNCHANGED <<logging_config_lock, logging_configured,
                   configure_logging_calls, configure_logging_returns>>

\* ska_logging.configure_logging(tags_filter=EnsureTagsFilter) is called
LOG_configure_called(d) ==
    /\ init_logging_pc[d] = "configure"
    /\ configure_logging_calls < MaxConfigureCalls
    /\ configure_logging_calls' = configure_logging_calls + 1
    /\ init_logging_pc' = [init_logging_pc EXCEPT ![d] = "configuring"]
    /\ UNCHANGED <<logging_config_lock, logging_configured,
                   configure_logging_returns>>

\* and returns
LOG_configure_returned(d) ==
    /\ init_logging_pc[d] = "configuring"
    /\ configure_logging_returns' = configure_logging_returns + 1
    /\ init_logging_pc' = [init_logging_pc EXCEPT ![d] = "set_flag"]
    /\ UNCHANGED <<logging_config_lock, logging_configured,
                   configure_logging_calls>>

\* SKABaseDevice._logging_configured = True
LOG_set_flag(d) ==
    /\ init_logging_pc[d] = "set_flag"
    /\ logging_configured' = TRUE
    /\ init_logging_pc' = [init_logging_pc EXCEPT ![d] = "unlock"]
    /\ UNCHANGED <<logging_config_lock, configure_logging_calls,
                   configure_logging_returns>>

\* the end of the with block: the lock is released and the device goes on
\* to set up its own logger
LOG_release(d) ==
    /\ init_logging_pc[d] = "unlock"
    /\ logging_config_lock' = Unlocked
    /\ init_logging_pc' = [init_logging_pc EXCEPT ![d] = "done"]
    /\ UNCHANGED <<logging_configured, configure_logging_calls,
                   configure_logging_returns>>

\* the rest of _init_logging: the device sets up its own logger
LOG_set_logger(d) ==
    /\ init_logging_pc[d] = "done"
    /\ init_logging_pc' = [init_logging_pc EXCEPT ![d] = "ready"]
    /\ UNCHANGED <<logging_config_lock, logging_configured,
                   configure_logging_calls, configure_logging_returns>>

\* init_device is called again on a device, which runs _init_logging again
LOG_reinit(d) ==
    /\ init_logging_pc[d] = "ready"
    /\ init_logging_pc' = [init_logging_pc EXCEPT ![d] = "start"]
    /\ UNCHANGED <<logging_config_lock, logging_configured,
                   configure_logging_calls, configure_logging_returns>>

LOG_Acquire ==
    (\E d \in Devices : LOG_acquire(d))
        /\ UNCHANGED <<dsm_vars, osm_vars, cmd_vars, bm_vars, ssm_vars>>
LOG_TestFlag ==
    (\E d \in Devices : LOG_test_flag(d))
        /\ UNCHANGED <<dsm_vars, osm_vars, cmd_vars, bm_vars, ssm_vars>>
LOG_ConfigureCalled ==
    (\E d \in Devices : LOG_configure_called(d))
        /\ UNCHANGED <<dsm_vars, osm_vars, cmd_vars, bm_vars, ssm_vars>>
LOG_ConfigureReturned ==
    (\E d \in Devices : LOG_configure_returned(d))
        /\ UNCHANGED <<dsm_vars, osm_vars, cmd_vars, bm_vars, ssm_vars>>
LOG_SetFlag ==
    (\E d \in Devices : LOG_set_flag(d))
        /\ UNCHANGED <<dsm_vars, osm_vars, cmd_vars, bm_vars, ssm_vars>>
LOG_Release ==
    (\E d \in Devices : LOG_release(d))
        /\ UNCHANGED <<dsm_vars, osm_vars, cmd_vars, bm_vars, ssm_vars>>
LOG_SetLogger ==
    (\E d \in Devices : LOG_set_logger(d))
        /\ UNCHANGED <<dsm_vars, osm_vars, cmd_vars, bm_vars, ssm_vars>>
LOG_Reinit ==
    (\E d \in Devices : LOG_reinit(d))
        /\ UNCHANGED <<dsm_vars, osm_vars, cmd_vars, bm_vars, ssm_vars>>

(***************************************************************************)
(* Specifications                                                          *)
(***************************************************************************)
Init == DSM_Init /\ OSM_Init /\ CMD_Init /\ BM_Init /\ SSM_Init /\ LOG_Init

\* the subarray's state model driven by its commands
Next == CommandCall \/ LifecycleAction \/ CompletionCallback
Spec == Init /\ [][Next]_vars

\* the SKASubarray driven by its commands as they are, each running the
\* do() of its class
NextSubarray == SubarrayCall \/ LifecycleAction
SpecSubarray == Init /\ [][NextSubarray]_vars

\* The subarray's commands with a do() that may also fail or raise, and the
\* lifecycle.
NextFailing == FailingCall \/ LifecycleAction
SpecFailing == Init /\ [][NextFailing]_vars

\* The subarray's commands, the lifecycle and the completion callbacks, with
\* the permission queries asked in between.
NextQueries ==
    SubarrayCall \/ LifecycleAction \/ CompletionCallback \/ PermissionQuery
SpecQueries == Init /\ [][NextQueries]_vars

\* the DeviceStateMachine driven by triggers
NextDSM == DSM_Trigger
SpecDSM == Init /\ [][NextDSM]_vars

\* the ObservationStateMachine driven by triggers
NextOSM == OSM_Trigger
SpecOSM == Init /\ [][NextOSM]_vars

\* the SKABaseDeviceStateModel driven by its actions
NextBase == BM_Action \/ BM_WriteAdminMode
SpecBase == Init /\ [][NextBase]_vars

\* the subarray state model driven by actions, with its side effects
NextSSM == SSM_PerformAction
SpecSSM == Init /\ [][NextSSM]_vars

\* the devices of one device server running _init_logging concurrently
NextLogging ==
    \/ LOG_Acquire
    \/ LOG_TestFlag
    \/ LOG_ConfigureCalled
    \/ LOG_ConfigureReturned
    \/ LOG_SetFlag
    \/ LOG_Release
    \/ LOG_SetLogger
    \/ LOG_Reinit
SpecLogging == Init /\ [][NextLogging]_vars

(***************************************************************************)
(* Properties of the ObservationStateMachine (checked under SpecOSM)       *)
(***************************************************************************)
\* the observation-state table of the specification
ObsStateTable ==
    { <<"EMPTY", "assign_started", "RESOURCING">>,
      <<"IDLE", "assign_started", "RESOURCING">>,
      <<"IDLE", "release_started", "RESOURCING">>,
      <<"RESOURCING", "resourcing_succeeded_some_resources", "IDLE">>,
      <<"RESOURCING", "resourcing_succeeded_no_resources", "EMPTY">>,
      <<"RESOURCING", "resourcing_failed", "FAULT">>,
      <<"IDLE", "configure_started", "CONFIGURING">>,
      <<"READY", "configure_started", "CONFIGURING">>,
      <<"CONFIGURING", "configure_succeeded", "READY">>,
      <<"CONFIGURING", "configure_failed", "FAULT">>,
      <<"READY", "end_succeeded", "IDLE">>,
      <<"READY", "scan_started", "SCANNING">>,
      <<"SCANNING", "scan_succeeded", "READY">>,
      <<"SCANNING", "end_scan_succeeded", "READY">>,
      <<"SCANNING", "scan_failed", "FAULT">>,
      <<"SCANNING", "end_scan_failed", "FAULT">>,
      <<"ABORTING", "abort_succeeded", "ABORTED">>,
      <<"ABORTING", "abort_failed", "FAULT">>,
      <<"ABORTED", "obs_reset_started", "RESETTING">>,
      <<"FAULT", "obs_reset_started", "RESETTING">>,
      <<"ABORTED", "restart_started", "RESTARTING">>,
      <<"FAULT", "restart_started", "RESTARTING">>,
      <<"RESETTING", "obs_reset_succeeded", "IDLE">>,
      <<"RESTARTING", "restart_succeeded", "EMPTY">> } \cup
    { <<s, "fatal_error", "FAULT">> : s \in OSM_states }

\* C3: every transition of the specification's observation-state table is
\* accepted by the ObservationStateMachine from its listed source state and
\* leaves the machine in the listed destination state.
C3_TableTransitionsAccepted ==
    \A row \in ObsStateTable :
        (osm_last.from = row[1] /\ osm_last.trigger = row[2])
            => (~osm_last.raised /\ osm_state = row[3])

\* End has just been accepted in READY and has left the machine in IDLE
C3_Witness ==
    /\ osm_last.from = "READY"
    /\ osm_last.trigger = "end_succeeded"
    /\ ~osm_last.raised
    /\ osm_state = "IDLE"

\* C5: a trigger sent to the ObservationStateMachine in a state for which
\* the transition list has no entry raises, leaves the machine state and the
\* recorded obs_state as they were, and calls no obs_state callback.
C5_AbsentPairRaises ==
    (/\ osm_last.trigger # None
     /\ ~\E i \in DOMAIN OSM_transitions :
            /\ OSM_transitions[i].trigger = osm_last.trigger
            /\ osm_last.from \in OSM_transitions[i].source)
        => /\ osm_last.raised
           /\ osm_state = osm_last.from
           /\ osm_obs_state = osm_last.before
           /\ osm_last.callbacks = << >>

\* scan_started has just been sent to a machine in EMPTY, and was rejected
C5_Witness ==
    /\ osm_last.from = "EMPTY"
    /\ osm_last.trigger = "scan_started"
    /\ osm_last.raised

\* observation_state_machine_dag of the test suite
observation_state_machine_dag ==
    { <<"EMPTY", "assign_started", "RESOURCING">>,
      <<"EMPTY", "fatal_error", "FAULT">>,
      <<"RESOURCING", "resourcing_succeeded_some_resources", "IDLE">>,
      <<"RESOURCING", "resourcing_succeeded_no_resources", "EMPTY">>,
      <<"RESOURCING", "resourcing_failed", "FAULT">>,
      <<"RESOURCING", "fatal_error", "FAULT">>,
      <<"IDLE", "assign_started", "RESOURCING">>,
      <<"IDLE", "release_started", "RESOURCING">>,
      <<"IDLE", "configure_started", "CONFIGURING">>,
      <<"IDLE", "abort_started", "ABORTING">>,
      <<"IDLE", "fatal_error", "FAULT">>,
      <<"CONFIGURING", "configure_succeeded", "READY">>,
      <<"CONFIGURING", "configure_failed", "FAULT">>,
      <<"CONFIGURING", "abort_started", "ABORTING">>,
      <<"CONFIGURING", "fatal_error", "FAULT">>,
      <<"READY", "end_succeeded", "IDLE">>,
      <<"READY", "end_failed", "FAULT">>,
      <<"READY", "configure_started", "CONFIGURING">>,
      <<"READY", "abort_started", "ABORTING">>,
      <<"READY", "scan_started", "SCANNING">>,
      <<"READY", "fatal_error", "FAULT">>,
      <<"SCANNING", "scan_succeeded", "READY">>,
      <<"SCANNING", "scan_failed", "FAULT">>,
      <<"SCANNING", "end_scan_succeeded", "READY">>,
      <<"SCANNING", "end_scan_failed", "FAULT">>,
      <<"SCANNING", "abort_started", "ABORTING">>,
      <<"SCANNING", "fatal_error", "FAULT">>,
      <<"ABORTING", "abort_succeeded", "ABORTED">>,
      <<"ABORTING", "abort_failed", "FAULT">>,
      <<"ABORTING", "fatal_error", "FAULT">>,
      <<"ABORTED", "obs_reset_started", "RESETTING">>,
      <<"ABORTED", "restart_started", "RESTARTING">>,
      <<"ABORTED", "fatal_error", "FAULT">>,
      <<"FAULT", "obs_reset_started", "RESETTING">>,
      <<"FAULT", "restart_started", "RESTARTING">>,
      <<"FAULT", "fatal_error", "FAULT">>,
      <<"RESETTING", "obs_reset_succeeded", "IDLE">>,
      <<"RESETTING", "obs_reset_failed", "FAULT">>,
      <<"RESETTING", "fatal_error", "FAULT">>,
      <<"RESTARTING", "restart_succeeded", "EMPTY">>,
      <<"RESTARTING", "restart_failed", "FAULT">>,
      <<"RESTARTING", "fatal_error", "FAULT">> }

\* StateMachineTester._parametrize: the expected state of a (state, trigger)
\* pair of the dag, None when the trigger is expected to fail
Expected(dag, state, trigger) ==
    IF \E row \in dag : row[1] = state /\ row[2] = trigger
    THEN (CHOOSE row \in dag : row[1] = state /\ row[2] = trigger)[3]
    ELSE None

\* StateMachineTester.test_state_machine, for the trigger last sent: an
\* expected failure raises and leaves the state, an expected transition is
\* accepted and ends in the expected state
Conforms(dag) ==
    \A state \in {row[1] : row \in dag} \cup {row[3] : row \in dag} :
        \A trigger \in {row[2] : row \in dag} :
            (osm_last.from = state /\ osm_last.trigger = trigger)
                => IF Expected(dag, state, trigger) = None
                   THEN osm_last.raised /\ osm_state = state
                   ELSE /\ ~osm_last.raised
                        /\ osm_state = Expected(dag, state, trigger)

\* C6: the ObservationStateMachine implements exactly the graph
\* observation_state_machine_dag of the test suite: over the states and
\* triggers of that list, a trigger is accepted and leads to the listed state
\* when the triple is listed, and raises and leaves the state otherwise.
C6_ImplementsTestDag == Conforms(observation_state_machine_dag)

(***************************************************************************)
(* Properties of the DeviceStateMachine (checked under SpecDSM)            *)
(***************************************************************************)
\* the lifecycle triggers and the states that accept them, with the state
\* each leads to
LifecycleTable ==
    { <<"UNINITIALISED", "init_started", "INIT">>,
      <<"INIT", "init_succeeded_disabled", "DISABLED">>,
      <<"INIT", "init_succeeded_standby", "STANDBY">>,
      <<"INIT", "init_succeeded_off", "OFF">>,
      <<"INIT", "init_failed", "FAULT">>,
      <<"FAULT", "reset_succeeded_disabled", "DISABLED">>,
      <<"FAULT", "reset_succeeded_standby", "STANDBY">>,
      <<"FAULT", "reset_succeeded_off", "OFF">>,
      <<"FAULT", "reset_failed", "FAULT">>,
      <<"OFF", "on_succeeded", "ON">>,
      <<"OFF", "on_failed", "FAULT">> } \cup
    { <<s, "standby_succeeded", "STANDBY">> : s \in {"DISABLED", "OFF"} } \cup
    { <<s, "standby_failed", "FAULT">> : s \in {"DISABLED", "OFF"} } \cup
    { <<s, "disable_succeeded", "DISABLED">> : s \in {"STANDBY", "OFF"} } \cup
    { <<s, "disable_failed", "FAULT">> : s \in {"STANDBY", "OFF"} } \cup
    { <<s, "off_succeeded", "OFF">> : s \in {"DISABLED", "STANDBY", "ON"} } \cup
    { <<s, "off_failed", "FAULT">> : s \in {"DISABLED", "STANDBY", "ON"} }

\* C7: over the seven states of the DeviceStateMachine and its lifecycle
\* triggers, a trigger is accepted exactly in the states the lifecycle table
\* lists for it and then leads to the listed state (X_failed to FAULT); every
\* other pair raises and leaves state and op_state unchanged.
C7_LifecycleCrossProduct ==
    \A state \in {"UNINITIALISED", "INIT", "FAULT", "DISABLED", "STANDBY",
                  "OFF", "ON"} :
        \A trigger \in {row[2] : row \in LifecycleTable} :
            (dsm_last.from = state /\ dsm_last.trigger = trigger)
                => IF \E row \in LifecycleTable :
                          row[1] = state /\ row[2] = trigger
                   THEN /\ ~dsm_last.raised
                        /\ <<state, trigger, dsm_state>> \in LifecycleTable
                   ELSE /\ dsm_last.raised
                        /\ dsm_state = state
                        /\ dsm_op_state = dsm_last.before

\* on_succeeded has just been sent to a machine in STANDBY, and was rejected
\* with state and op_state left as they were
C7_Witness ==
    /\ dsm_last.from = "STANDBY"
    /\ dsm_last.trigger = "on_succeeded"
    /\ dsm_last.raised
    /\ dsm_state = "STANDBY"
    /\ dsm_op_state = "STANDBY"

\* C8 as stated: in the generic device state machine fatal_error is permitted
\* in every state, including UNINITIALISED, and always leads to FAULT.
C8_FatalErrorFromEveryState ==
    dsm_last.trigger = "fatal_error"
        => (~dsm_last.raised /\ dsm_state = "FAULT")

\* C8, amended: fatal_error is permitted in every state other than
\* UNINITIALISED and always leads to FAULT; in UNINITIALISED it is rejected
\* and the machine stays in UNINITIALISED.
C8_FatalErrorOnceInitialising ==
    dsm_last.trigger = "fatal_error"
        => IF dsm_last.from = "UNINITIALISED"
           THEN dsm_last.raised /\ dsm_state = "UNINITIALISED"
           ELSE ~dsm_last.raised /\ dsm_state = "FAULT"

\* fatal_error has just taken a machine from ON to FAULT
C8_Witness ==
    /\ dsm_last.from = "ON"
    /\ dsm_last.trigger = "fatal_error"
    /\ ~dsm_last.raised
    /\ dsm_state = "FAULT"

(***************************************************************************)
(* Properties of the command envelope (checked under Spec)                 *)
(***************************************************************************)
\* the fault states of the subarray's state model
FaultStates == {"FAULT", "OBSFAULT"}

\* the last action of a sequence of actions, None when there is none
LastAction(actions) ==
    IF actions = << >> THEN None ELSE actions[Len(actions)]

\* C1: a command built with an action hook h and called in a state where the
\* state model does not permit its check action (h_succeeded for an
\* ActionCommand, h_started for a DualActionCommand) raises the not-allowed
\* error without calling do(), performs no action on the state model, and
\* leaves the state and the assigned resources unchanged.
C1_NotAllowedRaisesBeforeDo ==
    \A c \in HookedCommands :
        (/\ cmd_last.name = c.name
         /\ ~SM_is_action_allowed(cmd_last.from,
                IF c.kind = "dual" THEN c.hook \o "_started"
                                   ELSE c.hook \o "_succeeded"))
            => /\ cmd_last.raised = "StateModelError"
               /\ cmd_last.doCalls = 0
               /\ cmd_last.actions = << >>
               /\ cmd_last.result = None
               /\ sm_state = cmd_last.from
               /\ assigned = cmd_last.before

\* AssignResources has just been called, and rejected, on a READY subarray
\* that holds resources
C1_Witness ==
    /\ cmd_last.name = "AssignResources"
    /\ cmd_last.from = "READY"
    /\ cmd_last.argin = <<"B">>
    /\ cmd_last.raised = "StateModelError"
    /\ assigned = <<"A">>

C4_AbortStartedPermitted ==
    cmd_last.name = "Abort"
        => /\ cmd_last.from \in {"IDLE", "CONFIGURING", "READY", "SCANNING",
                                 "RESETTING"}
                => /\ cmd_last.doCalls = 1
                   /\ cmd_last.actions # << >>
                   /\ cmd_last.actions[1] = "abort_started"
                   /\ cmd_last.outcome = "STARTED" => sm_state = "ABORTING"
           /\ cmd_last.from \in {"EMPTY", "RESOURCING", "ABORTING", "ABORTED",
                                 "OBSFAULT", "RESTARTING"}
                => /\ cmd_last.raised = "StateModelError"
                   /\ cmd_last.actions = << >>
                   /\ sm_state = cmd_last.from

\* C9: an ActionCommand with action hook h called in a state where it is
\* allowed performs exactly h_succeeded when do() returns OK and exactly
\* h_failed when do() returns FAILED, performs no other action, and returns
\* the (return code, message) pair of do() to the caller.
C9_ActionCommandCompletion ==
    \A c \in HookedCommands :
        (c.kind = "action" /\ cmd_last.name = c.name)
            => /\ cmd_last.outcome = "OK"
                    => /\ cmd_last.actions = << c.hook \o "_succeeded" >>
                       /\ cmd_last.raised = None
                       /\ cmd_last.result = <<"OK", DoMessage(c, "OK")>>
               /\ cmd_last.outcome = "FAILED"
                    => /\ cmd_last.actions = << c.hook \o "_failed" >>
                       /\ cmd_last.raised = None
                       /\ cmd_last.result = <<"FAILED", DoMessage(c, "FAILED")>>

\* the do() of End has just returned FAILED on a READY subarray, which has
\* performed end_failed and nothing else
C9_Witness ==
    /\ cmd_last.name = "End"
    /\ cmd_last.from = "READY"
    /\ cmd_last.outcome = "FAILED"
    /\ cmd_last.actions = <<"end_failed">>
    /\ cmd_last.result = <<"FAILED", <<"End", "FAILED">> >>

\* the completion actions of a command
CompletionActions(c) ==
    IF c.hook = None
    THEN {}
    ELSE {c.hook \o "_succeeded", c.hook \o "_failed"}

\* whether a sequence of actions holds one of a set of actions
Performed(actions, set) ==
    \E i \in DOMAIN actions : actions[i] \in set

PlainDualCommands ==
    {c \in HookedCommands : c.kind = "dual" /\ ~c.resourcing}

\* C11: a DualActionCommand with hook h whose do() returns STARTED or QUEUED
\* performs h_started and no succeeded, failed or fatal_error action, returns
\* the code to the caller and leaves the state model in the transient state
\* entered by h_started; a succeeded() or failed() called after the call has
\* returned then performs h_succeeded or h_failed.
C11_DeferredCompletion ==
    /\ [](\A c \in HookedCommands :
            (/\ c.kind = "dual"
             /\ cmd_last.name = c.name
             /\ cmd_last.outcome \in {"STARTED", "QUEUED"})
                => /\ cmd_last.actions = << c.hook \o "_started" >>
                   /\ cmd_last.raised = None
                   /\ cmd_last.result[1] = cmd_last.outcome
                   /\ cmd_last.entered = << sm_state >>)
    /\ [][\A c \in PlainDualCommands :
            (/\ cmd_last.name = c.name
             /\ cmd_last.outcome \in {"STARTED", "QUEUED"}
             /\ cmd_last'.name \in {"succeeded", "failed"}
             /\ cmd_last'.argin = c.name)
                => /\ cmd_last'.actions = << c.hook \o "_" \o cmd_last'.name >>
                   /\ cmd_last'.raised = None]_vars

\* the do() of Scan has just returned STARTED on a READY subarray, which is
\* left SCANNING
C11_Witness ==
    /\ cmd_last.name = "Scan"
    /\ cmd_last.from = "READY"
    /\ cmd_last.outcome = "STARTED"
    /\ cmd_last.actions = <<"scan_started">>
    /\ sm_state = "SCANNING"

\* C12: a DualActionCommand with hook h performs h_started before do() is
\* called and its completion action only after do() has returned, so that a
\* synchronous successful command passes through exactly two states, the
\* transient one and then the terminal one: Configure CONFIGURING then READY,
\* Abort ABORTING then ABORTED, ObsReset RESETTING then IDLE,
\* AssignResources (ending with resources) RESOURCING then IDLE.
C12_StartedBeforeDoCompletionAfter ==
    \A c \in HookedCommands :
        (/\ c.kind = "dual"
         /\ cmd_last.name = c.name
         /\ cmd_last.outcome = "OK")
            => /\ cmd_last.raised = None
               /\ cmd_last.doCalls = 1
               /\ cmd_last.doAt = 1
               /\ Len(cmd_last.actions) = 2
               /\ cmd_last.actions[1] = c.hook \o "_started"
               /\ ~c.resourcing => cmd_last.actions[2] = c.hook \o "_succeeded"
               /\ Len(cmd_last.entered) = 2
               /\ cmd_last.entered[1] # cmd_last.entered[2]
               /\ cmd_last.entered[2] = sm_state
               /\ c.name = "Configure"
                    => cmd_last.entered = <<"CONFIGURING", "READY">>
               /\ c.name = "Abort"
                    => cmd_last.entered = <<"ABORTING", "ABORTED">>
               /\ c.name = "ObsReset"
                    => cmd_last.entered = <<"RESETTING", "IDLE">>
               /\ (c.name = "AssignResources" /\ assigned # << >>)
                    => cmd_last.entered = <<"RESOURCING", "IDLE">>

\* Configure has just succeeded on an IDLE subarray, which has passed through
\* CONFIGURING to READY
C12_Witness ==
    /\ cmd_last.name = "Configure"
    /\ cmd_last.from = "IDLE"
    /\ cmd_last.outcome = "OK"
    /\ cmd_last.doAt = 1
    /\ cmd_last.entered = <<"CONFIGURING", "READY">>

\* the commands built without an action hook
HooklessCommands == {c \in Commands : c.hook = None}

\* a command without an action hook is allowed in every state, and performs
\* no action and leaves the state as it was when do() returns OK or FAILED
HooklessAllowedAndSilent ==
    \A c \in HooklessCommands :
        /\ IsAllowed(c, sm_state)
        /\ CheckAllowed(c, sm_state)
        /\ cmd_last.name = c.name
            => /\ cmd_last.doCalls = 1
               /\ cmd_last.outcome \in {"OK", "FAILED"}
                    => /\ cmd_last.actions = << >>
                       /\ sm_state = cmd_last.from
                       /\ cmd_last.raised = None
                       /\ cmd_last.result[1] = cmd_last.outcome

\* C13 as stated: an ActionCommand or DualActionCommand built without an
\* action hook is allowed in every state, performs no state-model action when
\* do() returns OK or FAILED (the state is unchanged), and performs
\* fatal_error only when do() raises.
C13_HooklessOnlyFatalError ==
    /\ HooklessAllowedAndSilent
    /\ \A c \in HooklessCommands :
          (cmd_last.name = c.name /\ cmd_last.actions # << >>)
              => cmd_last.outcome = "RAISE"

\* C13, amended: the same, but fatal_error is performed when do() raises or
\* when the do() of an ActionCommand returns a code other than OK or FAILED,
\* whose ReturnCodeError is handled as a fatal error; nothing else is ever
\* performed.
C13_HooklessFatalErrorOnAnyException ==
    /\ HooklessAllowedAndSilent
    /\ \A c \in HooklessCommands :
          (cmd_last.name = c.name /\ cmd_last.actions # << >>)
              => /\ cmd_last.actions = <<"fatal_error">>
                 /\ \/ cmd_last.outcome = "RAISE"
                    \/ /\ c.kind = "action"
                       /\ cmd_last.outcome \in {"STARTED", "QUEUED", "UNKNOWN"}

\* the do() of SetLoggingLevel has just returned FAILED on a device that is
\* OFF and stays OFF
C13_Witness ==
    /\ cmd_last.name = "SetLoggingLevel"
    /\ cmd_last.from = "OFF"
    /\ cmd_last.outcome = "FAILED"
    /\ cmd_last.actions = << >>
    /\ sm_state = "OFF"

\* the commands whose succeeded() looks at the assigned resources
ResourcingCommands == {c \in Commands : c.resourcing}

\* C14: after a resourcing command whose do() returns OK the observation state
\* is IDLE exactly when the set of assigned resources is non-empty after
\* do(), and EMPTY exactly when it is empty; so AssignResources with an empty
\* list on an EMPTY subarray leaves it EMPTY, and ReleaseResources that
\* removes the last resource of an IDLE subarray leaves it EMPTY.
C14_ResourcedDecidesIdleOrEmpty ==
    \A c \in ResourcingCommands :
        (/\ cmd_last.name = c.name
         /\ cmd_last.outcome = "OK")
            => /\ cmd_last.raised = None
               /\ cmd_last.actions[1] = c.hook \o "_started"
               /\ cmd_last.entered[1] = "RESOURCING"
               /\ sm_state \in {"IDLE", "EMPTY"}
               /\ sm_state = "IDLE" <=> assigned # << >>
               /\ sm_state = "EMPTY" <=> assigned = << >>
               /\ (/\ c.name = "AssignResources"
                   /\ cmd_last.from = "EMPTY"
                   /\ cmd_last.argin = << >>)
                      => sm_state = "EMPTY"
               /\ (/\ c.name = "ReleaseResources"
                   /\ cmd_last.from = "IDLE"
                   /\ Len(cmd_last.before) = 1
                   /\ cmd_last.argin = cmd_last.before)
                      => sm_state = "EMPTY"

\* ReleaseResources has just removed the last resource of an IDLE subarray
C14_Witness ==
    /\ cmd_last.name = "ReleaseResources"
    /\ cmd_last.from = "IDLE"
    /\ cmd_last.before = <<"A">>
    /\ cmd_last.argin = <<"A">>
    /\ cmd_last.outcome = "OK"
    /\ assigned = << >>
    /\ sm_state = "EMPTY"

\* the elements of a list
Elements(list) == {list[i] : i \in DOMAIN list}

NoDuplicates(list) ==
    \A i, j \in DOMAIN list : list[i] = list[j] => i = j

\* C15: the resource bookkeeping is idempotent. Assigning a resource that is
\* already assigned adds no duplicate, releasing a resource that is not
\* assigned leaves the set as it was and raises nothing, and releasing all
\* resources of an empty set leaves it empty and raises nothing.
C15_ResourceBookkeepingIdempotent ==
    /\ NoDuplicates(assigned)
    /\ (cmd_last.name = "AssignResources" /\ cmd_last.outcome = "OK")
          => /\ cmd_last.raised = None
             /\ Elements(assigned)
                    = Elements(cmd_last.before) \cup Elements(cmd_last.argin)
             /\ Elements(cmd_last.argin) \subseteq Elements(cmd_last.before)
                    => assigned = cmd_last.before
    /\ (cmd_last.name = "ReleaseResources" /\ cmd_last.outcome = "OK")
          => /\ cmd_last.raised = None
             /\ Elements(assigned)
                    = Elements(cmd_last.before) \ Elements(cmd_last.argin)
             /\ Elements(cmd_last.argin) \cap Elements(cmd_last.before) = {}
                    => assigned = cmd_last.before
    /\ (cmd_last.name = "ReleaseAllResources" /\ cmd_last.outcome = "OK")
          => /\ cmd_last.raised = None
             /\ assigned = << >>

\* AssignResources has just been handed the one resource that was assigned
\* already
C15_Witness ==
    /\ cmd_last.name = "AssignResources"
    /\ cmd_last.before = <<"A">>
    /\ cmd_last.argin = <<"A">>
    /\ cmd_last.outcome = "OK"
    /\ assigned = <<"A">>

\* ReleaseResources of a resource that is not assigned, and ReleaseAllResources
\* with nothing assigned, have run
C15_ReleaseUnassignedReached ==
    /\ cmd_last.name = "ReleaseResources"
    /\ cmd_last.before = <<"A">>
    /\ cmd_last.argin = <<"B">>
    /\ cmd_last.outcome = "OK"

C15_ReleaseAllOfNothingReached ==
    /\ cmd_last.name = "ReleaseAllResources"
    /\ cmd_last.before = << >>
    /\ cmd_last.outcome = "OK"

\* ReleaseAllResources has just been called on a subarray that is ON with
\* observation state EMPTY and no resources
ReleaseAllOnEmptyCalled ==
    /\ cmd_last.name = "ReleaseAllResources"
    /\ cmd_last.from = "EMPTY"
    /\ cmd_last.before = << >>

\* C16 as stated: ReleaseAllResources called on an ON subarray whose resource
\* set is already empty (observation state EMPTY) succeeds with OK, is not an
\* error, and leaves the observation state at EMPTY.
C16_ReleaseAllOnEmptySucceeds ==
    ReleaseAllOnEmptyCalled
        => /\ cmd_last.raised = None
           /\ cmd_last.result # None
           /\ cmd_last.result[1] = "OK"
           /\ sm_state = "EMPTY"

\* C16, amended: ReleaseAllResources called on an ON subarray whose resource
\* set is empty (observation state EMPTY) is rejected as not allowed in that
\* state: do() is not invoked, no action is performed, the observation state
\* stays EMPTY and the resource set stays empty.
C16_ReleaseAllOnEmptyRejected ==
    ReleaseAllOnEmptyCalled
        => /\ cmd_last.raised = "StateModelError"
           /\ cmd_last.doCalls = 0
           /\ cmd_last.actions = << >>
           /\ cmd_last.result = None
           /\ sm_state = "EMPTY"
           /\ assigned = << >>

\* the call has been made and the subarray is still EMPTY
C16_Witness ==
    /\ ReleaseAllOnEmptyCalled
    /\ cmd_last.raised = "StateModelError"
    /\ sm_state = "EMPTY"
    /\ assigned = << >>

\* every count of configured capabilities is zero
NothingConfigured(conf) == \A k \in DOMAIN conf : conf[k] = 0

\* C17: End in READY returns OK and leaves the subarray IDLE with every
\* configured-capability count at zero and the assigned resources unchanged.
C17_EndDeconfigures ==
    (cmd_last.name = "End" /\ cmd_last.from = "READY")
        => /\ cmd_last.raised = None
           /\ cmd_last.result[1] = "OK"
           /\ cmd_last.doCalls = 1
           /\ sm_state = "IDLE"
           /\ NothingConfigured(configured)
           /\ assigned = cmd_last.before

\* End has just run on a READY subarray that held resources and a configured
\* capability
C17_Witness ==
    /\ cmd_last.name = "End"
    /\ cmd_last.from = "READY"
    /\ ~NothingConfigured(cmd_last.configuredBefore)
    /\ cmd_last.before # << >>
    /\ sm_state = "IDLE"
    /\ NothingConfigured(configured)

\* C18: ObsReset in ABORTED or in the observation FAULT state passes through
\* RESETTING to IDLE, sets every configured-capability count to zero and
\* leaves the assigned resources unchanged.
C18_ObsResetDeconfigures ==
    (cmd_last.name = "ObsReset" /\ cmd_last.from \in {"ABORTED", "OBSFAULT"})
        => /\ cmd_last.raised = None
           /\ cmd_last.result[1] = "OK"
           /\ cmd_last.entered = <<"RESETTING", "IDLE">>
           /\ sm_state = "IDLE"
           /\ NothingConfigured(configured)
           /\ assigned = cmd_last.before

\* ObsReset has just run on an ABORTED subarray that held resources and a
\* configured capability
C18_Witness ==
    /\ cmd_last.name = "ObsReset"
    /\ cmd_last.from = "ABORTED"
    /\ ~NothingConfigured(cmd_last.configuredBefore)
    /\ cmd_last.before # << >>
    /\ sm_state = "IDLE"
    /\ assigned = cmd_last.before

\* ObsReset has run in the observation FAULT state with a capability
\* configured
C18_FromFaultReached ==
    /\ cmd_last.name = "ObsReset"
    /\ cmd_last.from = "OBSFAULT"
    /\ ~NothingConfigured(cmd_last.configuredBefore)
    /\ sm_state = "IDLE"

\* C19: Restart in ABORTED or in the observation FAULT state passes through
\* RESTARTING to EMPTY and ends with no assigned resources and every
\* configured-capability count at zero.
C19_RestartReleasesAndDeconfigures ==
    (cmd_last.name = "Restart" /\ cmd_last.from \in {"ABORTED", "OBSFAULT"})
        => /\ cmd_last.raised = None
           /\ cmd_last.result[1] = "OK"
           /\ cmd_last.entered = <<"RESTARTING", "EMPTY">>
           /\ sm_state = "EMPTY"
           /\ assigned = << >>
           /\ NothingConfigured(configured)

\* Restart has just run in the observation FAULT state on a subarray that
\* held resources and a configured capability
C19_Witness ==
    /\ cmd_last.name = "Restart"
    /\ cmd_last.from = "OBSFAULT"
    /\ ~NothingConfigured(cmd_last.configuredBefore)
    /\ cmd_last.before # << >>
    /\ sm_state = "EMPTY"
    /\ assigned = << >>

\* Restart has run on an ABORTED subarray that held resources
C19_FromAbortedReached ==
    /\ cmd_last.name = "Restart"
    /\ cmd_last.from = "ABORTED"
    /\ cmd_last.before # << >>
    /\ sm_state = "EMPTY"

\* C20: the DeviceStateMachine calls the op_state callback exactly when a
\* transition changes the op state value, once and with the new value; it
\* does not call it when the machine re-enters the state it is in, as
\* fatal_error and reset_failed do in FAULT, nor when the trigger is rejected.
C20_CallbackOnlyOnChange ==
    /\ dsm_last.callbacks =
          IF dsm_op_state # dsm_last.before THEN << dsm_op_state >> ELSE << >>
    /\ dsm_last.raised => dsm_op_state = dsm_last.before
    /\ (/\ dsm_last.trigger \in {"fatal_error", "reset_failed"}
        /\ dsm_last.from = "FAULT")
          => /\ ~dsm_last.raised
             /\ dsm_state = "FAULT"
             /\ dsm_op_state = "FAULT"
             /\ dsm_last.callbacks = << >>

\* fatal_error has just been triggered on a machine that was in FAULT
C20_Witness ==
    /\ dsm_last.trigger = "fatal_error"
    /\ dsm_last.from = "FAULT"
    /\ dsm_last.before = "FAULT"
    /\ ~dsm_last.raised
    /\ dsm_last.callbacks = << >>

\* reset_failed has been triggered in FAULT, and a transition has called back
C20_ResetFailedReached ==
    /\ dsm_last.trigger = "reset_failed"
    /\ dsm_last.from = "FAULT"
    /\ dsm_last.callbacks = << >>

C20_CallbackReached ==
    /\ dsm_last.trigger = "on_succeeded"
    /\ dsm_last.callbacks = <<"ON">>

(***************************************************************************)
(* Properties of the SKABaseDeviceStateModel (checked under SpecBase)      *)
(***************************************************************************)
\* the admin mode that an admin-mode action is named after
RequestedMode(action) ==
    CASE action = "to_notfitted" -> "NOT_FITTED"
      [] action = "to_offline" -> "OFFLINE"
      [] action = "to_maintenance" -> "MAINTENANCE"
      [] action = "to_online" -> "ONLINE"

\* C22: each permitted admin-mode action leaves the admin mode equal to the
\* mode requested: to_notfitted gives NOT_FITTED, to_offline OFFLINE,
\* to_maintenance MAINTENANCE and to_online ONLINE, so that ONLINE written to
\* adminMode is read back as ONLINE.
C22_AdminModeAsRequested ==
    (bm_last.action \in BM_admin_actions /\ ~bm_last.raised)
        => /\ bm_admin_mode = RequestedMode(bm_last.action)
           /\ bm_last.argin # None => bm_admin_mode = bm_last.argin

C23_RejectedReached ==
    /\ bm_last.action = "to_online"
    /\ bm_last.from = "FAULT"
    /\ bm_last.raised

\* C24: in every reachable state op state DISABLE implies admin mode OFFLINE
\* or NOT_FITTED and op state OFF implies admin mode ONLINE or MAINTENANCE;
\* init_succeeded and reset_succeeded, from whatever state they are accepted
\* in, select OFF or DISABLE according to the admin mode held at that moment.
C24_OpStateMatchesAdminMode ==
    /\ bm_state = "DISABLE" => bm_admin_mode \in {"OFFLINE", "NOT_FITTED"}
    /\ bm_state = "OFF" => bm_admin_mode \in {"ONLINE", "MAINTENANCE"}
    /\ (/\ bm_last.action \in {"init_succeeded", "reset_succeeded"}
        /\ ~bm_last.raised)
          => /\ bm_last.admin_before \in {"ONLINE", "MAINTENANCE"}
                  => bm_state = "OFF"
             /\ bm_last.admin_before \in {"OFFLINE", "NOT_FITTED"}
                  => bm_state = "DISABLE"

\* C25: reset_succeeded and reset_failed are permitted only in FAULT;
\* performed in any other state they raise and leave the state unchanged.
C25_ResetOnlyInFault ==
    (/\ bm_last.action \in {"reset_succeeded", "reset_failed"}
     /\ bm_last.from # "FAULT")
        => /\ bm_last.raised
           /\ bm_state = bm_last.from

(***************************************************************************)
(* Properties of the subarray state model's side effects (checked under    *)
(* SpecSSM)                                                                *)
(***************************************************************************)
\* C21: the obs_state callback is never invoked with an obs state equal to
\* the one it reported last; fatal_error performed while already in obs
\* FAULT produces no callback.
C21_ObsCallbackOnlyOnChange ==
    /\ \A i \in DOMAIN ssm_last.obs_callbacks :
          ssm_last.obs_callbacks[i] # ssm_last.obs_before
    /\ (ssm_last.action = "fatal_error" /\ ssm_last.from = "OBSFAULT")
          => ssm_last.obs_callbacks = << >>

\* C26: an obs state other than EMPTY occurs only while the op state is ON:
\* whenever the op state is INIT, FAULT, DISABLE or OFF the obs state is
\* EMPTY.
C26_ObsStateOnlyWhileOn ==
    /\ ssm_op_state \in {"INIT", "FAULT", "DISABLE", "OFF"}
          => ssm_obs_state = "EMPTY"
    /\ ssm_obs_state \notin {"EMPTY", None} => ssm_op_state = "ON"
    /\ ssm_state \in ObsSubStates
          => /\ ssm_op_state = "ON"
             /\ ssm_obs_state = ObsStateOf(ssm_state)

\* a subarray that has been ON is in device FAULT with obs state EMPTY
C26_Witness ==
    /\ ssm_last.action = "off_failed"
    /\ ssm_last.op_before = "ON"
    /\ ssm_op_state = "FAULT"
    /\ ssm_obs_state = "EMPTY"

\* an obs state other than EMPTY has been reported
C26_ObsStateReached ==
    /\ ssm_op_state = "ON"
    /\ ssm_obs_state = "SCANNING"

\* C27: off_succeeded is permitted in every sub-state of an ON subarray and
\* leads to op state OFF with obs state EMPTY; off_failed from each of them
\* leads to device FAULT with obs state EMPTY.
C27_OffFromEverySubState ==
    (/\ ssm_last.action \in {"off_succeeded", "off_failed"}
     /\ ssm_last.from \in ObsSubStates)
        => /\ ~ssm_last.raised
           /\ ssm_obs_state = "EMPTY"
           /\ ssm_last.action = "off_succeeded"
                => ssm_state = "OFF" /\ ssm_op_state = "OFF"
           /\ ssm_last.action = "off_failed"
                => ssm_state = "FAULT" /\ ssm_op_state = "FAULT"

(***************************************************************************)
(* Properties of _init_logging (checked under SpecLogging)                 *)
(***************************************************************************)
\* the devices that have left the lock-guarded section
LeftSection == {d \in Devices : init_logging_pc[d] \in {"done", "ready"}}

InvalidConfigureArg(argin) ==
    \/ \E i \in DOMAIN argin[2] : argin[2][i] \notin CapabilityTypes
    \/ Len(argin[1]) # Len(argin[2])

\* C29: Configure called with a capability type that is not declared for the
\* device, or with instance and type lists of different lengths, raises an
\* error before any configured-capability count is changed: every count has
\* the same value after the failed call as before it.
C29_InvalidConfigureChangesNothing ==
    (/\ cmd_last.name = "Configure"
     /\ cmd_last.doCalls = 1
     /\ InvalidConfigureArg(cmd_last.argin))
        => /\ cmd_last.raised # None
           /\ cmd_last.result = None
           /\ configured = cmd_last.configuredBefore
           /\ assigned = cmd_last.before

\* Configure has just been refused an undeclared capability type on a
\* subarray that has a capability configured
C29_Witness ==
    /\ cmd_last.name = "Configure"
    /\ cmd_last.from = "READY"
    /\ cmd_last.argin = << <<1>>, <<"BAND3">> >>
    /\ cmd_last.raised # None
    /\ ~NothingConfigured(cmd_last.configuredBefore)
    /\ configured = cmd_last.configuredBefore

\* Configure has been refused lists of different lengths
C29_SizeMismatchReached ==
    /\ cmd_last.name = "Configure"
    /\ cmd_last.doCalls = 1
    /\ cmd_last.argin = << <<1>>, << >> >>
    /\ cmd_last.raised # None

\* C30: when the do() of a resourcing command returns FAILED, the command
\* performs resourcing_failed, the obs state becomes FAULT, and the command
\* returns the (FAILED, message) pair to the caller without raising.
C30_ResourcingFailedReturned ==
    \A c \in ResourcingCommands :
        (cmd_last.name = c.name /\ cmd_last.outcome = "FAILED")
            => /\ cmd_last.raised = None
               /\ cmd_last.result = <<"FAILED", DoMessage(c, "FAILED")>>
               /\ cmd_last.actions = << c.hook \o "_started", "resourcing_failed" >>
               /\ sm_state = "OBSFAULT"

\* what the call does instead: it raises the AttributeError of failed() after
\* performing fatal_error
C30_AttributeErrorReached ==
    /\ cmd_last.name = "AssignResources"
    /\ cmd_last.outcome = "FAILED"
    /\ cmd_last.raised = "AttributeError"
    /\ cmd_last.actions = <<"assign_started", "fatal_error">>
    /\ sm_state = "OBSFAULT"

\* the last step was a permission query
QueryAsked == cmd_last.name \in Queries

\* C31: the permission queries are pure and agree with each other. A query
\* (is_allowed, check_allowed and with it the is_<Command>_allowed hook,
\* is_action_allowed, try_action) leaves the state of the state model and
\* the resources and capabilities of the target as they were and performs
\* no action, so no callback runs; and in every state is_allowed() of a
\* command returns True exactly when its check_allowed() returns True
\* rather than raising.
C31_QueriesPureAndAgree ==
    /\ QueryAsked =>
          /\ sm_state = cmd_last.from
          /\ assigned = cmd_last.before
          /\ configured = cmd_last.configuredBefore
          /\ cmd_last.actions = << >>
          /\ cmd_last.entered = << >>
    /\ \A c \in Commands :
          LET r0 == NewRun(sm_state, assigned, configured)
              is == QueryRun("is_allowed", c, r0)
              check == QueryRun("check_allowed", c, r0)
          IN /\ is.exc = None
             /\ (is.returned = "True") <=>
                    (check.exc = None /\ check.returned = "True")
             /\ (is.returned = "True") <=> IsAllowed(c, sm_state)
             /\ (check.exc = None) <=> CheckAllowed(c, sm_state)

\* a check_allowed() that passed in a state that has resources, and so
\* would have moved the state had it performed its action
C31_Witness ==
    /\ cmd_last.name = "check_allowed"
    /\ cmd_last.argin = "Configure"
    /\ cmd_last.result = "True"
    /\ sm_state = "IDLE"
    /\ assigned # << >>

\* The obs state that the subarray reports is EMPTY: the state model is in
\* EMPTY, or in a state of the device lifecycle, which the table enters
\* from EMPTY only and whose side effects report no obs state.
ObsStateIsEmpty == sm_state \notin (ObsSubStates \ {"EMPTY"})

\* C32: whenever the obs state of the subarray is EMPTY, no resource is
\* assigned, whatever commands were called before and whether their do()
\* returned OK, returned FAILED or raised.
C32_EmptyHasNoResources == ObsStateIsEmpty => assigned = << >>

\* Restart has just brought a faulted subarray that held resources to EMPTY
C32_Witness ==
    /\ cmd_last.name = "Restart"
    /\ cmd_last.from = "OBSFAULT"
    /\ cmd_last.before # << >>
    /\ cmd_last.outcome = "OK"
    /\ sm_state = "EMPTY"
    /\ ObsStateIsEmpty
    /\ assigned = << >>

\* a resourcing command whose do() raised has left EMPTY for the fault state
C32_RaisedFromEmptyReached ==
    /\ cmd_last.name = "AssignResources"
    /\ cmd_last.from = "EMPTY"
    /\ cmd_last.outcome = "RAISE"
    /\ sm_state = "OBSFAULT"

\* C33: whenever the obs state of the subarray is IDLE, some resource is
\* assigned, whatever commands were called before, an AssignResources
\* whose do() raises in EMPTY followed by ObsReset included.
C33_IdleHasResources == sm_state = "IDLE" => assigned # << >>

\* the commands of an observation that do not deal in resources
ObservingCommands ==
    {"Configure", "Scan", "EndScan", "End", "Abort", "ObsReset"}

\* the commands that assign or release resources
ResourceChangingCommands ==
    {"AssignResources", "ReleaseResources", "ReleaseAllResources", "Restart"}

\* C34: Configure, Scan, EndScan, End, Abort and ObsReset leave the set of
\* assigned resources as it was, whether their do() returns OK, returns
\* FAILED or raises; a step that changes the set is a call of
\* AssignResources, ReleaseResources, ReleaseAllResources or Restart.
C34_OnlyResourceCommandsChangeResources ==
    /\ [](cmd_last.name \in ObservingCommands
             => assigned = cmd_last.before)
    /\ [][assigned' # assigned
             => cmd_last'.name \in ResourceChangingCommands]_vars

\* ObsReset has returned OK on a faulted subarray that holds resources and
\* a configured capability: it deconfigured and kept the resources
C34_Witness ==
    /\ cmd_last.name = "ObsReset"
    /\ cmd_last.from = "OBSFAULT"
    /\ cmd_last.outcome = "OK"
    /\ cmd_last.before # << >>
    /\ ~NothingConfigured(cmd_last.configuredBefore)
    /\ NothingConfigured(configured)
    /\ assigned = cmd_last.before

\* a Configure whose do() raised on a subarray that holds resources
C34_RaisedReached ==
    /\ cmd_last.name = "Configure"
    /\ cmd_last.outcome = "RAISE"
    /\ cmd_last.raised = "DoError"
    /\ assigned # << >>

\* an End whose do() returned FAILED on a subarray that holds resources
C34_FailedReached ==
    /\ cmd_last.name = "End"
    /\ cmd_last.outcome = "FAILED"
    /\ sm_state = "OBSFAULT"
    /\ assigned # << >>

\* the completions that the state model permits in the state that command c,
\* called in state, has reached when its do() is about to run
CompletionsPermitted(c, state) ==
    LET r == Started(c, NewRun(state, << >>, [t \in CapabilityTypes |-> 0]))
    IN /\ r.exc = None
       /\ IF c.resourcing
          THEN /\ r.state = "RESOURCING"
               /\ \A action \in {"resourcing_succeeded_some_resources",
                                 "resourcing_succeeded_no_resources",
                                 "resourcing_failed"} :
                     SM_is_action_allowed(r.state, action)
          ELSE /\ SM_is_action_allowed(r.state, SucceededHook(c))
               /\ SM_is_action_allowed(r.state, FailedHook(c))

\* the same in a machine of state_machine.py: where the hook's check passes
\* (its started trigger for one that has it, its succeeded trigger
\* otherwise), the state then reached permits its succeeded and its failed
\* trigger
MachinePermitsCompletions(transitions, states, hook) ==
    LET started == hook \o "_started"
        succeeded == hook \o "_succeeded"
        failed == hook \o "_failed"
        dual == started \in TriggersOf(transitions)
    IN \A state \in states :
          IF dual
          THEN MayTrigger(transitions, state, started)
                  => LET dest == DestOf(transitions, state, started)
                     IN IF hook \in {"assign", "release"}
                        THEN \A t \in {"resourcing_succeeded_some_resources",
                                        "resourcing_succeeded_no_resources",
                                        "resourcing_failed"} :
                                MayTrigger(transitions, dest, t)
                        ELSE /\ MayTrigger(transitions, dest, succeeded)
                             /\ MayTrigger(transitions, dest, failed)
          ELSE MayTrigger(transitions, state, succeeded)
                  => MayTrigger(transitions, state, failed)

\* C35: a synchronous completion is never rejected by the state model. In
\* every state in which the check of a command with a hook passes, the
\* state reached after the check (for a DualActionCommand: after its
\* started action) permits both the succeeded and the failed action of the
\* hook, and for the resourcing commands that state is RESOURCING and
\* permits the three resourcing completions; so no call whose do() returned
\* OK or FAILED ends with the state model's error.
C35_CompletionNeverRejected ==
    /\ \A c \in HookedCommands : \A state \in SM_states :
          CheckAllowed(c, state) => CompletionsPermitted(c, state)
    /\ \A hook \in {"on", "off"} :
          MachinePermitsCompletions(DSM_transitions, DSM_states, hook)
    /\ \A c \in {d \in HookedCommands : d.hook \notin {"on", "off"}} :
          MachinePermitsCompletions(OSM_transitions, OSM_states, c.hook)
    /\ (/\ cmd_last.name \in {c.name : c \in HookedCommands}
        /\ cmd_last.outcome \in {"OK", "FAILED"})
           => /\ cmd_last.raised # "StateModelError"
              /\ cmd_last.actions # << >>
              /\ \A i \in DOMAIN cmd_last.actions :
                    cmd_last.actions[i] # "fatal_error"
                       \/ cmd_last.raised = "AttributeError"

\* Abort, called while a scan is running, has had its do() return FAILED
\* and its abort_failed accepted in ABORTING
C35_Witness ==
    /\ cmd_last.name = "Abort"
    /\ cmd_last.from = "SCANNING"
    /\ cmd_last.outcome = "FAILED"
    /\ cmd_last.actions = <<"abort_started", "abort_failed">>
    /\ cmd_last.raised = None
    /\ sm_state = "OBSFAULT"

\* the last step delivered a deferred completion of Scan
ScanCompletionDelivered ==
    /\ cmd_last.name \in {"succeeded", "failed"}
    /\ cmd_last.argin = "Scan"

\* the deferred completion of Scan did what the claim says of it
ScanCompletionOutcome ==
    IF cmd_last.from = "SCANNING"
    THEN /\ cmd_last.raised = None
         /\ cmd_last.name = "succeeded"
               => /\ sm_state = "READY"
                  /\ cmd_last.actions = <<"scan_succeeded">>
         /\ cmd_last.name = "failed"
               => /\ sm_state = "OBSFAULT"
                  /\ cmd_last.actions = <<"scan_failed">>
    ELSE /\ cmd_last.raised = "StateModelError"
         /\ cmd_last.actions = << >>
         /\ sm_state = cmd_last.from

\* a call that has just taken the subarray out of SCANNING: EndScan, Abort,
\* or a command that performed fatal_error
LeftScanning ==
    /\ cmd_last.from = "SCANNING"
    /\ sm_state # "SCANNING"
    /\ \/ cmd_last.name \in {"EndScan", "Abort"}
       \/ \E i \in DOMAIN cmd_last.actions :
             cmd_last.actions[i] = "fatal_error"

\* C36: a deferred completion of Scan (its succeeded() or failed()) that is
\* delivered while the state is SCANNING moves it to READY or to the
\* observation FAULT state; one delivered after EndScan, Abort or a fatal
\* error has moved the state out of SCANNING is rejected with the state
\* model's error and leaves the state as it is.
C36_LateScanCompletionRejected ==
    /\ [](ScanCompletionDelivered => ScanCompletionOutcome)
    /\ [][(LeftScanning /\ ScanCompletionDelivered')
              => /\ cmd_last'.raised = "StateModelError"
                 /\ sm_state' = sm_state]_vars

\* failed() of Scan has been rejected in READY, the state that EndScan
\* leaves
C36_Witness ==
    /\ ScanCompletionDelivered
    /\ cmd_last.name = "failed"
    /\ cmd_last.from = "READY"
    /\ cmd_last.raised = "StateModelError"
    /\ sm_state = "READY"

\* succeeded() of Scan has been accepted in SCANNING
C36_InTimeReached ==
    /\ ScanCompletionDelivered
    /\ cmd_last.name = "succeeded"
    /\ cmd_last.from = "SCANNING"
    /\ sm_state = "READY"

\* the states from which a sequence of permitted triggers of the
\* ObservationStateMachine leads into the set S
RECURSIVE OSM_CanReach(_)
OSM_CanReach(S) ==
    LET T == S \cup
             {s \in OSM_states :
                 \E t \in OSM_triggers :
                    /\ MayTrigger(OSM_transitions, s, t)
                    /\ DestOf(OSM_transitions, s, t) \in S}
    IN IF T = S THEN S ELSE OSM_CanReach(T)

\* the state that a sequence of triggers leads to from state, None when
\* one of them is not permitted where it is fired
RECURSIVE OSM_After(_, _)
OSM_After(state, triggers) ==
    IF triggers = << >>
    THEN state
    ELSE IF MayTrigger(OSM_transitions, state, Head(triggers))
         THEN OSM_After(DestOf(OSM_transitions, state, Head(triggers)),
                        Tail(triggers))
         ELSE None

\* C37: no observation state is a dead end. From every state of the
\* ObservationStateMachine, and so from the state it is in, a finite
\* sequence of permitted triggers leads back to EMPTY; fatal_error,
\* restart_started, restart_succeeded is such a sequence from every state.
C37_EmptyReachableFromEveryState ==
    /\ osm_state \in OSM_CanReach({"EMPTY"})
    /\ OSM_CanReach({"EMPTY"}) = OSM_states
    /\ \A s \in OSM_states :
          OSM_After(s, <<"fatal_error", "restart_started",
                         "restart_succeeded">>) = "EMPTY"

\* the machine has come back to EMPTY by way of FAULT and RESTARTING
C37_Witness ==
    /\ osm_last.trigger = "restart_succeeded"
    /\ osm_last.from = "RESTARTING"
    /\ osm_state = "EMPTY"
    /\ osm_obs_state = "EMPTY"

\* the machine is in FAULT, from where only obs_reset_started and
\* restart_started lead on
C37_FaultReached ==
    /\ osm_state = "FAULT"
    /\ osm_last.trigger = "fatal_error"

\* The table and the machine agree on the action last performed on the
\* table, when it is an observation action performed in a sub-state of ON
\* and is not among the excepted (state, action) pairs: the table rejected
\* it exactly when the machine does not permit it, and otherwise entered
\* the state that the machine enters.
EncodingsAgreeExcept(excepted) ==
    (/\ ssm_last.from \in ObsSubStates
     /\ ssm_last.action \in OSM_triggers
     /\ <<ssm_last.from, ssm_last.action>> \notin excepted)
        => LET state == ObsStateOf(ssm_last.from)
               permitted == MayTrigger(OSM_transitions, state,
                                       ssm_last.action)
           IN /\ ssm_last.raised <=> ~permitted
              /\ permitted
                   => ObsStateOf(ssm_state) =
                          DestOf(OSM_transitions, state, ssm_last.action)

\* C38: the two encodings of the observation lifecycle agree. Over the
\* sub-states of an ON subarray and the observation actions, the
\* transition table of SKASubarrayStateModel and ObservationStateMachine
\* permit the same (state, action) pairs and send each to the same state,
\* the table's OBSFAULT standing for the machine's FAULT.
C38_EncodingsAgree == EncodingsAgreeExcept({})

\* the two encodings agree on every pair but (RESETTING, abort_started)
C38_AgreeButAbortInResetting ==
    EncodingsAgreeExcept({<<"RESETTING", "abort_started">>})

\* the last call was of an ActionCommand whose do() returned a code other
\* than OK and FAILED
ActionCommandOtherCode ==
    /\ \E c \in Commands : c.kind = "action" /\ cmd_last.name = c.name
    /\ cmd_last.outcome \in {"STARTED", "QUEUED", "UNKNOWN"}

C39_UninitialisedReached ==
    /\ cmd_last.name = "SetLoggingLevel"
    /\ cmd_last.from = "UNINITIALISED"
    /\ cmd_last.outcome = "UNKNOWN"
    /\ sm_state = "UNINITIALISED"

\* The obs state that the subarray reports is EMPTY or IDLE: the state
\* model is in one of the two, or in a state of the device lifecycle (where
\* the obs state is EMPTY).
ObsStateIsEmptyOrIdle == sm_state \notin (ObsSubStates \ {"EMPTY", "IDLE"})

\* C40: whenever the obs state of the subarray is EMPTY or IDLE, every
\* configured-capability count is zero, whatever commands were called
\* before: End, ObsReset and Restart, the ways back from a configured
\* state, deconfigure before they complete.
C40_UnconfiguredWhenEmptyOrIdle ==
    ObsStateIsEmptyOrIdle => NothingConfigured(configured)

\* ObsReset has brought an aborted subarray that had a configured
\* capability back to IDLE
C40_Witness ==
    /\ cmd_last.name = "ObsReset"
    /\ cmd_last.from = "ABORTED"
    /\ ~NothingConfigured(cmd_last.configuredBefore)
    /\ sm_state = "IDLE"
    /\ ObsStateIsEmptyOrIdle
    /\ NothingConfigured(configured)

\* a configured subarray is in the fault state after an End that failed
C40_ConfiguredFaultReached ==
    /\ cmd_last.name = "End"
    /\ cmd_last.outcome = "FAILED"
    /\ sm_state = "OBSFAULT"
    /\ ~NothingConfigured(configured)

\* Restart has brought a configured subarray back to EMPTY
C40_RestartReached ==
    /\ cmd_last.name = "Restart"
    /\ ~NothingConfigured(cmd_last.configuredBefore)
    /\ sm_state = "EMPTY"

====
